---- MODULE Spec2Model ----
(***************************************************************************)
(* The Drive -> transcription -> analysis -> notification pipeline.        *)
(*                                                                         *)
(* pollDrive (drive-poller), the large-downloader job, transcribeAudio     *)
(* (transcriber) and sendNotification (notifier) are modelled statement by *)
(* statement at the granularity of their awaited calls.  Handlers of       *)
(* different objects share no state, so the stages are followed for one    *)
(* item, Item, while the scan walks over every listed file.                *)
(***************************************************************************)
EXTENDS Integers, Sequences, FiniteSets, TLC

\* ------------------------------------------------------------------ bounds
NumFiles == 2       \* videos in the watched Drive tree
MaxFailures == 1    \* external calls that fail in one behaviour
MaxRedeliver == 1   \* duplicate deliveries of an already delivered event
CountCap == 2       \* the history counters stop counting here
MaxParagraphs == 2  \* speech_transcriptions entries of an Output Record
MaxWords == 11      \* words of one speech transcription
MaxBackfills == 1   \* requests with ?backfill=true
MaxBaseLen == 3     \* characters of a folder id before its trailing underscores
MaxUnderscores == 2 \* underscores appended to a folder id

Files == 1..NumFiles
\* The oldest file: a scan can fail after having ingested it.
Oldest == CHOOSE f \in Files : \A g \in Files : f <= g
\* Drive createdTime of a file; the listing is ordered by it.
createdTime(f) == f
Times == 0..NumFiles

PSlots == {"p1", "p2"}   \* concurrently running pollDrive requests
TSlots == {"t1", "t2"}   \* concurrently running transcribeAudio invocations
NSlots == {"n1"}         \* concurrently running sendNotification invocations

VARIABLES
    files,          \* per file: durationMillis (0: not declared), size in bytes
    jobName,        \* LARGE_DOWNLOAD_JOB_NAME of the poller is set
    uploaded,       \* the files 1..uploaded are in the watched Drive tree
    tracked,        \* the file whose records are followed
    pPool,          \* the pollDrive requests the platform lets run at once
    transcriptData, \* the engine's output for Item: its speech_transcriptions
    speech,         \* what that output formats to: "sufficient" | "insufficient"
    promptConfig,   \* the stored prompts a resolution is followed with
    promptContent,  \* the last prompt resolution: where the prompt came from
    mailConfigured, \* GMAIL_USER, GMAIL_APP_PASSWORD and NOTIFICATION_EMAIL are all set
    sendStartEmail, \* SEND_START_EMAIL of the transcriber is "true" (var.send_start_email)
    tPool,          \* the transcriber instances the platform delivers to
    watermark,      \* drive-poller-state.json: <<>> (absent) or <<lastTime>>
    scan,           \* the pollDrive requests
    dlJobs,         \* executions of the large-download job for Item, not yet run
    backfills,      \* requests with ?backfill=true the operator still sends
    wr,             \* Working Record of Item: "absent" | "fresh" | "started" (transcriptionStarted set)
    tEvents,        \* finalized events of the Working Record waiting for delivery
    tInv,           \* transcribeAudio invocations
    vJobs,          \* accepted annotateVideo operations still running
    outRec,         \* Output Record of Item: "absent" | "fresh" | "notified" (notificationSent set)
    transcriptRec,  \* <name>_TRANSCRIPT.txt: "absent" | "insufficient" | "transcript"
    analysisRec,    \* <name>_ANALYSIS.txt: "absent" | "text" | "error"
    nEvents,        \* finalized events of the Output Record waiting for delivery
    nInv,           \* sendNotification invocations
    failures,       \* external calls that have failed so far
    redeliveries,   \* duplicate deliveries so far
    hist,           \* history: what has happened to Item
    ingest,         \* one Drive file taken through both ingest paths: the file,
                    \* the job's environment, the record each path wrote
    folder,         \* one call of sanitizeParentFolderId: argument and result
    clock,          \* one offset given to formatTime in both representations
    dash,           \* the dashboard: the request being handled, the last one
                    \* served with its response, and _config/model.txt
    inbox,          \* per transcriber and notifier instance: the name of the
                    \* object whose event it was last given (<<>>: none)
    search,         \* one Drive folder id given to findSubfolderId and to
                    \* findPromptFile: what Drive answers, what each call did
    locate,         \* one call of locatePromptContent: what the watched folder
                    \* holds, the queries that fail, and the outcome
    transfer,       \* one execution of the large-download job: its environment,
                    \* the attempt, where it is, its streams, its exit code
    selection       \* one run of the analysis block: the gate's verdict,
                    \* _config/model.txt and whether its read fails, what the
                    \* prompt resolution and the model call come to; the
                    \* model and backend used, the lookups and calls made

scanVars == <<watermark, scan, dlJobs, backfills>>
probeVars == <<search, locate, selection, transfer>>
toolVars == <<ingest, folder, clock, dash, inbox, probeVars>>
pipeVars_nInv == <<files, jobName, uploaded, tracked, pPool, transcriptData, speech,
                   promptConfig, promptContent, mailConfigured, sendStartEmail, tPool,
                   watermark, scan, dlJobs, backfills, wr, tEvents, tInv, vJobs, outRec,
                   transcriptRec, analysisRec, nEvents, failures, redeliveries, hist>>
pipeVars_tInv == <<files, jobName, uploaded, tracked, pPool, transcriptData, speech,
                   promptConfig, promptContent, mailConfigured, sendStartEmail, tPool,
                   watermark, scan, dlJobs, backfills, wr, tEvents, vJobs, outRec,
                   transcriptRec, analysisRec, nEvents, nInv, failures, redeliveries, hist>>
deployVars == <<files, jobName, uploaded, tracked, pPool, transcriptData, speech, promptConfig,
                promptContent, mailConfigured, sendStartEmail, tPool>>
pipeVars == <<files, jobName, uploaded, tracked, pPool, transcriptData, speech, promptConfig,
              promptContent, mailConfigured, sendStartEmail, tPool, watermark, scan, dlJobs,
              backfills, wr, tEvents, tInv, vJobs, outRec, transcriptRec, analysisRec,
              nEvents, nInv, failures, redeliveries, hist>>
envVars == <<files, jobName, uploaded, tracked, pPool, transcriptData, speech, promptConfig, promptContent, mailConfigured, sendStartEmail, tPool, toolVars>>
tVars == <<tEvents, tInv, vJobs>>
nVars == <<outRec, transcriptRec, analysisRec, nEvents, nInv>>
vars == <<files, jobName, uploaded, tracked, pPool, transcriptData, speech, promptConfig, promptContent, mailConfigured, sendStartEmail, tPool, watermark, scan, dlJobs, backfills, wr, tEvents,
          tInv, vJobs, outRec, transcriptRec, analysisRec, nEvents, nInv,
          failures, redeliveries, hist, toolVars>>

MayFail == failures < MaxFailures
Max(a, b) == IF a > b THEN a ELSE b
Count(c) == IF c < CountCap THEN c + 1 ELSE c

ScanIdle == [pc |-> "idle", lastTime |-> 0, list |-> <<>>, idx |-> 0, newestTime |-> 0]
TIdle == [pc |-> "idle", err |-> "none"]
\* did: what the invocation has done so far, among "transcript", "analysis",
\* "send" (sendEmailOrSMS returned), "marker" and "delete".
NIdle == [pc |-> "idle", err |-> "none", analysisText |-> "none", did |-> {}, mail |-> <<>>]

\* The item whose Working Record, Output Record and artifacts are followed.
Item == tracked

\* listed: a scan has listed Item; ingested: a Working Record of Item was
\* written; submissions: accepted annotateVideo calls; startedEmails,
\* completionSends: mails handed to Gmail.
HistInit == [listed |-> FALSE, ingested |-> FALSE, submissions |-> 0,
             startedEmails |-> 0, completionSends |-> 0]

MAX_VIDEO_DURATION_MS == 3 * 60 * 60 * 1000
\* videoMediaMetadata.durationMillis: not declared, at the limit, over it.
Durations == {0, MAX_VIDEO_DURATION_MS, MAX_VIDEO_DURATION_MS + 1}
LARGE_FILE_THRESHOLD_BYTES == 1024 * 1024 * 1024
Sizes == {LARGE_FILE_THRESHOLD_BYTES, LARGE_FILE_THRESHOLD_BYTES + 1}

\* -------------------------------------------- notifier: the sufficiency gate

\* The decimal digits of n, and String.padStart(2, '0') on them.
RECURSIVE Digits(_)
Digits(n) == IF n < 10 THEN <<n>> ELSE Digits(n \div 10) \o <<n % 10>>
padStart2_None(d) == d
padStart2(d) == IF Len(d) < 2 THEN <<0>> \o d ELSE d

\* formatTime: the colon-separated fields of the text, each a digit sequence;
\* totalSeconds is the whole number of seconds of the offset.
formatTime(totalSeconds) ==
    LET hours == totalSeconds \div 3600
        minutes == (totalSeconds % 3600) \div 60
        seconds == totalSeconds % 60
    IN  IF hours > 0
        THEN <<Digits(hours), padStart2(Digits(minutes)), padStart2(Digits(seconds))>>
        ELSE <<Digits(minutes), padStart2(Digits(seconds))>>

\* The characters of a decimal number, and the text of a whole number.
DigitChar == <<"0", "1", "2", "3", "4", "5", "6", "7", "8", "9">>
IsDigit(c) == \E d \in 0..9 : DigitChar[d + 1] = c
DigitOf(c) == CHOOSE d \in 0..9 : DigitChar[d + 1] = c
TextOf(n) == [i \in 1..Len(Digits(n)) |-> DigitChar[Digits(n)[i] + 1]]

\* parseInt / the integer part of parseFloat: the number spelled by the
\* leading digits of the text; acc is the value read so far.
RECURSIVE parseDigits(_, _)
parseDigits(text, acc) ==
    IF text # <<>> /\ IsDigit(Head(text))
    THEN parseDigits(Tail(text), 10 * acc + DigitOf(Head(text)))
    ELSE acc

\* time.replace('s', ''): the first "s" of the text is removed.
RECURSIVE replaceS(_)
replaceS(text) ==
    IF text = <<>> THEN <<>>
    ELSE IF Head(text) = "s" THEN Tail(text)
    ELSE <<Head(text)>> \o replaceS(Tail(text))

\* The two representations of an offset of t whole seconds the engine
\* writes: "123s" or "123.000s", and {seconds: "123", nanos: 0} (seconds is
\* left out when it is zero).  <<>> stands for an absent offset.
StringOffset(t, fraction) ==
    [type |-> "string",
     text |-> TextOf(t) \o (IF fraction THEN <<".", "0", "0", "0">> ELSE <<>>) \o <<"s">>]
ObjectOffset(t) ==
    [type |-> "object", seconds |-> IF t = 0 THEN <<>> ELSE <<TextOf(t)>>, nanos |-> 0]

\* Math.floor of totalSeconds as formatTime computes it from its argument;
\* every later use of totalSeconds is under Math.floor.
totalSecondsOf(time) ==
    IF time.type = "string"
    THEN parseDigits(replaceS(time.text), 0)
    ELSE (IF time.seconds = <<>> THEN 0 ELSE parseDigits(time.seconds[1], 0))
         + time.nanos \div 1000000000

\* formatTime on its argument: if (!time) return '0:00'.
formatTimeOf(time) ==
    IF time = <<>> THEN <<<<0>>, <<0, 0>>>> ELSE formatTime(totalSecondsOf(time))

\* The offsets formatTime is followed with.
Offsets == (0..70) \cup {599, 600, 3599, 3600, 3601, 3725, 7325, 36000, 86399}

Format_String ==
    /\ clock.string = <<>>
    /\ clock' = [clock EXCEPT !.string =
                    <<formatTimeOf(IF clock.offset = <<>> THEN <<>>
                                   ELSE StringOffset(clock.offset[1], clock.fraction))>>]
    /\ UNCHANGED <<pipeVars, ingest, folder, dash, inbox, probeVars>>

Format_Object ==
    /\ clock.object = <<>>
    /\ clock' = [clock EXCEPT !.object =
                    <<formatTimeOf(IF clock.offset = <<>> THEN <<>>
                                   ELSE ObjectOffset(clock.offset[1]))>>]
    /\ UNCHANGED <<pipeVars, ingest, folder, dash, inbox, probeVars>>

\* formatTranscript: one paragraph "[start - end]\ntranscript" for every
\* transcription that has a non-blank first alternative (words > 0); <<>>
\* stands for null (nothing to format).
RECURSIVE formatTranscript(_)
formatTranscript(data) ==
    IF data = <<>> THEN <<>>
    ELSE (IF Head(data).words = 0 THEN <<>>
          ELSE <<[startTime |-> formatTime(Head(data).start),
                  endTime |-> formatTime(Head(data).end),
                  words |-> Head(data).words]>>)
         \o formatTranscript(Tail(data))

\* Whether /\[\d+:\d+ - \d+:\d+\]/ matches the label of a paragraph: both
\* times must consist of exactly two fields.
LabelMatches(p) == Len(p.startTime) = 2 /\ Len(p.endTime) = 2

\* speechOnly.split(/\s+/).length: a label the pattern does not match stays
\* in the text as three tokens, "[h:mm:ss", "-" and "h:mm:ss]".
RECURSIVE TokenCount(_)
TokenCount(ft) ==
    IF ft = <<>> THEN 0
    ELSE (IF LabelMatches(Head(ft)) THEN 0 ELSE 3) + Head(ft).words + TokenCount(Tail(ft))
\* ''.split(/\s+/) is [''], of length 1.
wordCount(ft) == IF ft = <<>> THEN 1 ELSE TokenCount(ft)

MinWords == 10
isInsufficient(ft) == ft = <<>> \/ wordCount(ft) < MinWords

\* The path sendNotification takes for an Output Record.
GateOf(data) == IF isInsufficient(formatTranscript(data)) THEN "insufficient" ELSE "sufficient"

\* An offset whose text has two fields, and one whose text has three.
TimeSamples == {5, 3605}
Transcriptions ==
    {t \in [words : 0..MaxWords, start : TimeSamples, end : TimeSamples] :
        t.start <= t.end}
SeqUpTo(S, n) == UNION {[1..k -> S] : k \in 0..n}

\* The two Output Records the pipeline is followed with.
NoSpeech == <<>>
EnoughSpeech == <<[words |-> MinWords, start |-> 0, end |-> 5]>>

\* ------------------------------------------ notifier: prompt resolution

\* PROMPT_FOLDER_CANDIDATES, and the watched root folder searched last.
FolderCandidates == <<"_prompts", "THE PROMPT">>
Locations == {FolderCandidates[i] : i \in 1..Len(FolderCandidates)} \cup {"root"}
\* The reads of a resolution: _config/prompt.txt and the Drive searches.
Reads == {"central"} \cup Locations

\* central: _config/prompt.txt is absent, holds only white space, or holds
\* text; drive: the locations that hold a non-empty prompt file.
PromptConfigs == [central : {"absent", "blank", "text"}, drive : SUBSET Locations]

\* locatePromptContent: the first candidate subfolder in which a prompt file
\* is found, else the root; a search that throws is caught and gives null.
RECURSIVE LocateFrom(_, _)
LocateFrom(i, found) ==
    IF i > Len(FolderCandidates) THEN (IF "root" \in found THEN "root" ELSE "none")
    ELSE IF FolderCandidates[i] \in found THEN FolderCandidates[i]
    ELSE LocateFrom(i + 1, found)
locatePromptContent(found) == LocateFrom(1, found)

ResolvePrompt_DriveFirst(cfg, failed) ==
    IF locatePromptContent(cfg.drive \ failed) # "none"
    THEN locatePromptContent(cfg.drive \ failed)
    ELSE IF cfg.central = "text" /\ "central" \notin failed THEN "central" ELSE "none"
\* Where promptContent comes from; failed are the reads that throw.  FOLDER_ID
\* is set by the deployment.  A missing _config/prompt.txt makes download
\* throw, which is caught like any other error of that read.
ResolvePrompt(cfg, failed) ==
    LET gcsPrompt == IF cfg.central = "text" /\ "central" \notin failed
                     THEN "central" ELSE "none"
    IN  IF gcsPrompt # "none" THEN gcsPrompt
        ELSE locatePromptContent(cfg.drive \ failed)

\* if (promptContent) analysisText = await analyzeWithModel(...).
CallsModel(p) == p # "none"

NoPrompt == [central |-> "absent", drive |-> {}]
\* No resolution has run yet.
Unresolved == [source |-> "unresolved", failed |-> {}, calls |-> FALSE]

\* At most one read of a resolution throws.
ReadFailures == {{}} \cup {{r} : r \in Reads}
\* What a resolution can come to, over the prompts the dashboard and the Drive
\* folder may hold when they are read: the number of reads that threw and
\* whether the model is called.
ResolutionOutcomes ==
    {<<Cardinality(failed), CallsModel(ResolvePrompt(cfg, failed))>> :
        cfg \in PromptConfigs, failed \in ReadFailures}

\* No Drive file is being followed through the two ingest paths.
IngestIdle == ingest = [file |-> <<>>, env |-> <<>>, inline |-> <<>>, job |-> <<>>]
\* sanitizeParentFolderId has not been called.
FolderIdle == folder = [base |-> <<>>, underscores |-> 0, sanitized |-> <<>>]
\* formatTime has not been called.
ClockIdle == clock = [offset |-> <<>>, fraction |-> FALSE, string |-> <<>>, object |-> <<>>]
\* The dashboard has not been asked anything and no model has been saved.
DashIdle == dash = [req |-> <<>>, served |-> <<>>, res |-> <<>>, model |-> "absent"]
\* No named object has been delivered to a handler.
InboxIdle == inbox = [s \in TSlots \cup NSlots |-> <<>>]
BenchIdle == IngestIdle /\ FolderIdle /\ ClockIdle /\ DashIdle /\ InboxIdle
\* Neither findSubfolderId nor findPromptFile has been called.
SearchIdle == search = [id |-> <<>>, answers |-> <<>>, download |-> "ok",
                        subfolder |-> <<>>, promptFile |-> <<>>]
\* locatePromptContent has not been called.
LocateIdle == locate = [tree |-> <<>>, fails |-> <<>>, result |-> <<>>]
\* No model has been selected.
SelectionIdle == selection = [insufficient |-> FALSE, stored |-> <<>>, readFails |-> FALSE,
                              prompt |-> "none", reply |-> "text", model |-> <<>>,
                              backend |-> <<>>, lookups |-> 0, aiCalls |-> 0,
                              analysisText |-> "none"]
\* The large-download job has not been executed.
TransferIdle == transfer = [env |-> <<>>, attempt |-> 0, pc |-> "none", ended |-> FALSE,
                            written |-> FALSE, err |-> "none", exit |-> <<>>]
ProbesIdle == SearchIdle /\ LocateIdle /\ SelectionIdle /\ TransferIdle
ToolsIdle == BenchIdle /\ ProbesIdle

\* Nothing has run yet.
StagesIdle ==
    /\ scan = [p \in PSlots |-> ScanIdle]
    /\ dlJobs = 0
    /\ wr = "absent"
    /\ tEvents = 0
    /\ tInv = [s \in TSlots |-> TIdle]
    /\ vJobs = 0
    /\ outRec = "absent"
    /\ transcriptRec = "absent"
    /\ analysisRec = "absent"
    /\ nEvents = 0
    /\ nInv = [s \in NSlots |-> NIdle]
    /\ redeliveries = 0
    /\ hist = HistInit

\* No state file yet, and no call has failed yet.
PipelineInit ==
    /\ StagesIdle
    /\ watermark = <<>>
    /\ failures = 0

\* Every video is in the Drive tree, is streamed inline and declares no
\* duration; one request and one invocation run at a time, and no backfill
\* is requested.
PlainDeployment ==
    /\ files = [f \in Files |-> [durationMillis |-> 0, size |-> LARGE_FILE_THRESHOLD_BYTES]]
    /\ jobName = FALSE
    /\ uploaded = NumFiles
    /\ tracked = Oldest
    /\ pPool = {"p1"}
    /\ tPool = {"t1"}
    /\ backfills = 0

Init ==
    /\ ToolsIdle
    /\ PipelineInit
    /\ PlainDeployment
    /\ mailConfigured \in BOOLEAN
    /\ sendStartEmail = TRUE
    /\ transcriptData \in {NoSpeech, EnoughSpeech}
    /\ speech = GateOf(transcriptData)
    /\ promptConfig = NoPrompt
    /\ promptContent = Unresolved

\* The pipeline at rest in the plain deployment, mail configured.
QuietPipeline ==
    /\ PipelineInit
    /\ PlainDeployment
    /\ mailConfigured = TRUE
    /\ sendStartEmail = TRUE
    /\ transcriptData = EnoughSpeech
    /\ speech = GateOf(transcriptData)
    /\ promptConfig = NoPrompt
    /\ promptContent = Unresolved

\* The gate alone, on every Output Record within the bounds.
GateInit ==
    /\ ToolsIdle
    /\ PipelineInit
    /\ PlainDeployment
    /\ mailConfigured = TRUE
    /\ sendStartEmail = TRUE
    /\ transcriptData \in SeqUpTo(Transcriptions, MaxParagraphs)
    /\ speech = "unknown"
    /\ promptConfig = NoPrompt
    /\ promptContent = Unresolved

N_Gate ==
    /\ speech = "unknown"
    /\ speech' = GateOf(transcriptData)
    /\ UNCHANGED <<files, jobName, uploaded, tracked, pPool, transcriptData, promptConfig,
                   promptContent, mailConfigured, sendStartEmail, tPool, toolVars, scanVars,
                   wr, tVars, nVars, failures, redeliveries, hist>>

GateNext == N_Gate

GateSpec == GateInit /\ [][GateNext]_vars

\* The prompt resolution alone, on every stored configuration and every
\* combination of reads that throw.
PromptInit ==
    /\ ToolsIdle
    /\ PipelineInit
    /\ PlainDeployment
    /\ mailConfigured = TRUE
    /\ sendStartEmail = TRUE
    /\ transcriptData = EnoughSpeech
    /\ speech = GateOf(transcriptData)
    /\ promptConfig \in PromptConfigs
    /\ promptContent = Unresolved

N_ResolvePrompt ==
    /\ promptContent = Unresolved
    /\ \E failed \in SUBSET Reads :
         promptContent' = [source |-> ResolvePrompt(promptConfig, failed),
                           failed |-> failed,
                           calls |-> CallsModel(ResolvePrompt(promptConfig, failed))]
    /\ UNCHANGED <<files, jobName, uploaded, tracked, pPool, transcriptData, speech,
                   promptConfig, mailConfigured, sendStartEmail, tPool, toolVars, scanVars,
                   wr, tVars, nVars, failures, redeliveries, hist>>

PromptNext == N_ResolvePrompt

PromptSpec == PromptInit /\ [][PromptNext]_vars

\* ------------------------------------------------------------ drive-poller

\* files.list: the files created strictly after lastTime, oldest first.
RECURSIVE ListedFrom(_, _)
ListedFrom(f, lastTime) ==
    IF f > uploaded THEN <<>>
    ELSE (IF createdTime(f) > lastTime THEN <<f>> ELSE <<>>) \o ListedFrom(f + 1, lastTime)
ListFiles(lastTime) == ListedFrom(1, lastTime)

\* A finalized Working Record of Item: the object is replaced, its custom
\* metadata is the one given to createWriteStream, and the store emits one event.
WriteWorkingRecord ==
    /\ wr' = "fresh"
    /\ tEvents' = tEvents + 1
    /\ hist' = [hist EXCEPT !.ingested = TRUE]

AfterEmptyScan_SavesLastTime(w, lastTime) == <<lastTime>>
\* The state file after a request that listed no file: w is its content
\* before, lastTime the time the request listed from.
AfterEmptyScan(w, lastTime) == w

\* pollDrive up to the listing: load the state, walk the folders, list the files.
ScanStart(p) ==
    /\ p \in pPool
    /\ scan[p].pc = "idle"
    /\ \/ \* getAllFolderIds or files.list throws: caught, 500, nothing written
          /\ MayFail
          /\ failures' = failures + 1
          /\ UNCHANGED <<scan, backfills, hist, watermark>>
       \/ \E lastTime \in Times :
          /\ \/ \* backfill mode: the state file is not read, lastTime is now - hours
                /\ backfills > 0
                /\ backfills' = backfills - 1
                /\ UNCHANGED failures
             \/ \* no state file: the default is one hour before now
                /\ watermark = <<>>
                /\ UNCHANGED <<failures, backfills>>
             \/ \* the state file cannot be read or parsed: same default
                /\ watermark # <<>>
                /\ MayFail
                /\ failures' = failures + 1
                /\ UNCHANGED backfills
             \/ /\ watermark = <<lastTime>>
                /\ UNCHANGED <<failures, backfills>>
          /\ scan' = [scan EXCEPT ![p] =
                        IF ListFiles(lastTime) = <<>>
                        THEN ScanIdle
                        ELSE [pc |-> "loop", lastTime |-> lastTime,
                              list |-> ListFiles(lastTime), idx |-> 1,
                              newestTime |-> lastTime]]
          /\ watermark' = IF ListFiles(lastTime) = <<>>
                          THEN AfterEmptyScan(watermark, lastTime)
                          ELSE watermark
          /\ hist' = IF Item <= uploaded /\ createdTime(Item) > lastTime
                     THEN [hist EXCEPT !.listed = TRUE] ELSE hist
    /\ UNCHANGED <<envVars, dlJobs, wr, tVars, nVars, redeliveries>>

ScanNext(p, newest) ==
    IF scan[p].idx = Len(scan[p].list)
    THEN [scan EXCEPT ![p].pc = "save", ![p].newestTime = newest]
    ELSE [scan EXCEPT ![p].idx = @ + 1, ![p].newestTime = newest]

tooLong_AtLeast(file) ==
    file.durationMillis # 0 /\ file.durationMillis >= MAX_VIDEO_DURATION_MS
\* durationMs && parseInt(durationMs) > MAX_VIDEO_DURATION_MS.
tooLong(file) ==
    file.durationMillis # 0 /\ file.durationMillis > MAX_VIDEO_DURATION_MS

\* parseInt(file.size) > LARGE_FILE_THRESHOLD_BYTES && LARGE_DOWNLOAD_JOB_NAME.
viaJob(file) == file.size > LARGE_FILE_THRESHOLD_BYTES /\ jobName

AfterFailedScan_SavesProgress(w, newest) == <<newest>>
\* The state file after a request that ends in the catch block: w is its
\* content before, newest the newestTime the loop has got to.
AfterFailedScan(w, newest) == w

\* One iteration of the loop over the listed files.
ScanItem(p) ==
    /\ p \in pPool
    /\ scan[p].pc = "loop"
    /\ LET f == scan[p].list[scan[p].idx]
           newest == Max(scan[p].newestTime, createdTime(f))
       IN  IF tooLong(files[f])
           THEN /\ scan' = ScanNext(p, newest)
                /\ UNCHANGED <<watermark, dlJobs, wr, tEvents, hist, failures>>
           ELSE \/ \* triggerLargeDownloadJob or downloadAndUpload rejects
                   /\ MayFail
                   /\ failures' = failures + 1
                   /\ scan' = [scan EXCEPT ![p] = ScanIdle]
                   /\ watermark' = AfterFailedScan(watermark, scan[p].newestTime)
                   /\ UNCHANGED <<dlJobs, wr, tEvents, hist>>
                \/ /\ viaJob(files[f])
                   /\ dlJobs' = IF f = Item THEN dlJobs + 1 ELSE dlJobs
                   /\ scan' = ScanNext(p, newest)
                   /\ UNCHANGED <<watermark, wr, tEvents, hist, failures>>
                \/ /\ ~viaJob(files[f])
                   /\ IF f = Item THEN WriteWorkingRecord
                      ELSE UNCHANGED <<wr, tEvents, hist>>
                   /\ scan' = ScanNext(p, newest)
                   /\ UNCHANGED <<watermark, dlJobs, failures>>
    /\ UNCHANGED <<envVars, backfills, tInv, vJobs, nVars, redeliveries>>

NewWatermark_Now(newest) == NumFiles
\* The lastTime that saveLastCheckTime is given: newestTime.
NewWatermark(newest) == newest

\* saveLastCheckTime and the 200 response.
ScanSave(p) ==
    /\ p \in pPool
    /\ scan[p].pc = "save"
    /\ scan' = [scan EXCEPT ![p] = ScanIdle]
    /\ \/ /\ MayFail
          /\ failures' = failures + 1
          /\ UNCHANGED watermark
       \/ /\ watermark' = <<NewWatermark(scan[p].newestTime)>>
          /\ UNCHANGED failures
    /\ UNCHANGED <<envVars, dlJobs, backfills, wr, tVars, nVars, redeliveries, hist>>

\* One execution of the large-download job for Item.  A failed execution
\* exits with 1 and the job retries it (max_retries = 3, above MaxFailures).
LargeDownload ==
    /\ dlJobs > 0
    /\ \/ /\ MayFail
          /\ failures' = failures + 1
          /\ UNCHANGED <<dlJobs, wr, tEvents, hist>>
       \/ /\ WriteWorkingRecord
          /\ dlJobs' = dlJobs - 1
          /\ UNCHANGED failures
    /\ UNCHANGED <<envVars, watermark, scan, backfills, tInv, vJobs, nVars, redeliveries>>

\* A user puts the next video into the watched Drive tree.
Upload ==
    /\ uploaded < NumFiles
    /\ uploaded' = uploaded + 1
    /\ UNCHANGED <<files, jobName, tracked, pPool, transcriptData, speech, promptConfig,
                   promptContent, mailConfigured, sendStartEmail, tPool, toolVars, scanVars, wr, tVars, nVars,
                   failures, redeliveries, hist>>

\* The poller and the download job alone, over every combination of
\* durations and sizes, with and without a backfill request, the videos
\* arriving one after the other.
ScanInit ==
    /\ ToolsIdle
    /\ PipelineInit
    /\ files \in [Files -> [durationMillis : Durations, size : Sizes]]
    /\ jobName = TRUE
    /\ uploaded = 0
    /\ tracked \in Files
    /\ pPool = {"p1"}
    /\ tPool = {"t1"}
    /\ backfills \in 0..MaxBackfills
    /\ mailConfigured = TRUE
    /\ sendStartEmail = TRUE
    /\ transcriptData = EnoughSpeech
    /\ speech = GateOf(transcriptData)
    /\ promptConfig = NoPrompt
    /\ promptContent = Unresolved

PollerNext ==
    \/ Upload
    \/ \E p \in PSlots : ScanStart(p)
    \/ \E p \in PSlots : ScanItem(p)
    \/ \E p \in PSlots : ScanSave(p)
    \/ LargeDownload

ScanSpec == ScanInit /\ [][PollerNext]_vars

\* The size branch alone: every combination of sizes, with and without
\* LARGE_DOWNLOAD_JOB_NAME; no video declares a duration, no backfill.
BranchInit ==
    /\ ToolsIdle
    /\ PipelineInit
    /\ files \in [Files -> [durationMillis : {0}, size : Sizes]]
    /\ jobName \in BOOLEAN
    /\ uploaded = 0
    /\ tracked \in Files
    /\ pPool = {"p1"}
    /\ tPool = {"t1"}
    /\ backfills = 0
    /\ mailConfigured = TRUE
    /\ sendStartEmail = TRUE
    /\ transcriptData = EnoughSpeech
    /\ speech = GateOf(transcriptData)
    /\ promptConfig = NoPrompt
    /\ promptContent = Unresolved

BranchSpec == BranchInit /\ [][PollerNext]_vars

\* Two pollDrive requests may run at once.  A state file exists, no backfill
\* is requested, no call fails and no video declares a duration.
OverlapInit ==
    /\ ToolsIdle
    /\ StagesIdle
    /\ watermark = <<0>>
    /\ failures = MaxFailures
    /\ files \in [Files -> [durationMillis : {0}, size : Sizes]]
    /\ jobName = TRUE
    /\ uploaded = 0
    /\ tracked \in Files
    /\ pPool = PSlots
    /\ tPool = {"t1"}
    /\ backfills = 0
    /\ mailConfigured = TRUE
    /\ sendStartEmail = TRUE
    /\ transcriptData = EnoughSpeech
    /\ speech = GateOf(transcriptData)
    /\ promptConfig = NoPrompt
    /\ promptContent = Unresolved

OverlapSpec == OverlapInit /\ [][PollerNext]_vars

\* The scheduler keeps sending requests, a started request runs to its end,
\* and a started job execution runs to its end.
PollerFairness ==
    /\ \A p \in PSlots : WF_vars(ScanStart(p) \/ ScanItem(p) \/ ScanSave(p))
    /\ WF_vars(LargeDownload)

FairOverlapSpec == OverlapSpec /\ PollerFairness

\* Every offset of the samples, and the absent one.
TimeInit ==
    /\ QuietPipeline
    /\ IngestIdle
    /\ FolderIdle
    /\ DashIdle
    /\ InboxIdle
    /\ ProbesIdle
    /\ clock \in [offset : {<<>>} \cup {<<t>> : t \in Offsets}, fraction : BOOLEAN,
                   string : {<<>>}, object : {<<>>}]

TimeNext == Format_String \/ Format_Object

TimeSpec == TimeInit /\ [][TimeNext]_vars

\* ------------------------------------------------ sanitizeParentFolderId

\* The characters of a folder id that matter: a letter, the underscore, a
\* white-space character.
Chars == {"a", "_", " "}
isWhiteSpace(c) == c = " "

RECURSIVE trimStart(_)
trimStart(str) ==
    IF str # <<>> /\ isWhiteSpace(Head(str)) THEN trimStart(Tail(str)) ELSE str

RECURSIVE trimEnd(_)
trimEnd(str) ==
    IF str # <<>> /\ isWhiteSpace(str[Len(str)])
    THEN trimEnd(SubSeq(str, 1, Len(str) - 1)) ELSE str

\* String.prototype.trim.
trim(str) == trimEnd(trimStart(str))

RECURSIVE stripUnderscores(_)
\* str.replace(/_+$/, '').
stripUnderscores(str) ==
    IF str # <<>> /\ str[Len(str)] = "_"
    THEN stripUnderscores(SubSeq(str, 1, Len(str) - 1)) ELSE str

sanitizeParentFolderId(folderId) ==
    IF folderId = <<>> THEN folderId ELSE stripUnderscores(trim(folderId))

RECURSIVE Underscores(_)
Underscores(n) == IF n = 0 THEN <<>> ELSE <<"_">> \o Underscores(n - 1)

\* The argument of the call: the base string followed by the underscores.
FolderId == folder.base \o Underscores(folder.underscores)

Sanitize ==
    /\ folder.sanitized = <<>>
    /\ folder' = [folder EXCEPT !.sanitized = <<sanitizeParentFolderId(FolderId)>>]
    /\ UNCHANGED <<pipeVars, ingest, clock, dash, inbox, probeVars>>

\* Every base string and every number of underscores within the bounds.
SanitizeInit ==
    /\ QuietPipeline
    /\ IngestIdle
    /\ ClockIdle
    /\ DashIdle
    /\ InboxIdle
    /\ ProbesIdle
    /\ folder \in [base : SeqUpTo(Chars, MaxBaseLen), underscores : 0..MaxUnderscores,
                    sanitized : {<<>>}]

SanitizeNext == Sanitize

SanitizeSpec == SanitizeInit /\ [][SanitizeNext]_vars

\* ------------------------------------------------- the Drive folder queries

\* What drive.files.list does with one query: it rejects, or it returns no
\* file, or it returns one.
ListAnswers == {"error", "empty", "found"}

\* getFolderIdCandidates: the trimmed id, then the id without its trailing
\* underscores when that differs and is not empty.
getFolderIdCandidates(folderId) ==
    IF folderId = <<>> THEN <<>>
    ELSE LET trimmed == trim(folderId)
             sanitized == sanitizeParentFolderId(trimmed)
             candidates == IF sanitized # <<>> /\ sanitized # trimmed
                           THEN <<trimmed, sanitized>> ELSE <<trimmed>>
         IN  SelectSeq(candidates, LAMBDA c : c # <<>>)

\* The loop over the candidates inside the try block: the ids queried and
\* what the loop ends with.  A rejected query leaves the loop for the catch
\* block, which returns null.
RECURSIVE queryFrom(_, _, _)
queryFrom(i, candidates, answers) ==
    IF i > Len(candidates) THEN [queried |-> <<>>, result |-> "null"]
    ELSE IF answers[i] = "error"
    THEN [queried |-> <<candidates[i]>>, result |-> "null"]
    ELSE IF answers[i] = "found"
    THEN [queried |-> <<candidates[i]>>, result |-> "found"]
    ELSE LET rest == queryFrom(i + 1, candidates, answers)
         IN  [queried |-> <<candidates[i]>> \o rest.queried, result |-> rest.result]

findSubfolderId(parentFolderId, answers) ==
    queryFrom(1, getFolderIdCandidates(parentFolderId), answers)

\* The file found is downloaded; the promise of its stream is returned
\* without await, so a stream error rejects the call.
findPromptFile(folderId, answers, download) ==
    LET listed == queryFrom(1, getFolderIdCandidates(folderId), answers)
    IN  IF listed.result = "found"
        THEN [listed EXCEPT !.result = IF download = "ok" THEN "content" ELSE "throws"]
        ELSE listed

Search_Subfolder ==
    /\ search.id # <<>>
    /\ search.subfolder = <<>>
    /\ search' = [search EXCEPT !.subfolder =
                      <<findSubfolderId(search.id[1], search.answers)>>]
    /\ UNCHANGED <<pipeVars, ingest, folder, clock, dash, inbox, locate, selection, transfer>>

Search_PromptFile ==
    /\ search.id # <<>>
    /\ search.promptFile = <<>>
    /\ search' = [search EXCEPT !.promptFile =
                      <<findPromptFile(search.id[1], search.answers, search.download)>>]
    /\ UNCHANGED <<pipeVars, ingest, folder, clock, dash, inbox, locate, selection, transfer>>

\* Every folder id within the bounds, and every answer of Drive to the
\* queries with the first and with the second candidate.
SearchInit ==
    /\ QuietPipeline
    /\ BenchIdle
    /\ TransferIdle
    /\ LocateIdle
    /\ SelectionIdle
    /\ \E base \in SeqUpTo(Chars, MaxBaseLen), n \in 0..MaxUnderscores :
         search \in [id : {<<base \o Underscores(n)>>},
                     answers : [1..2 -> ListAnswers],
                     download : {"ok", "error"},
                     subfolder : {<<>>}, promptFile : {<<>>}]

SearchNext == Search_Subfolder \/ Search_PromptFile

SearchSpec == SearchInit /\ [][SearchNext]_vars

\* ---------------------------------------- the folder-convention search

\* What the watched folder holds at a location: no such subfolder, a
\* subfolder without a prompt file, a prompt file that is empty, one with text.
Holdings == {"missing", "nofile", "blank", "text"}
Trees == {t \in [Locations -> Holdings] : t["root"] # "missing"}
\* How the queries of a location fail: not at all, a files.list call rejects
\* (caught, null), or the stream of the download rejects.
SearchFailures == [Locations -> {"none", "list", "stream"}]

\* What findSubfolderId followed by findPromptFile gives at a location.
promptFileAt(held, fail) ==
    IF held \in {"missing", "nofile"} \/ fail = "list" THEN "null"
    ELSE IF fail = "stream" THEN "throws"
    ELSE held

found_NotNull(content) == content # "null"
\* if (promptContent): null and the empty text are passed over.
found(content) == content \notin {"null", "blank"}

\* The loop over the folder candidates, then the root: the locations whose
\* prompt file was asked for, what is returned and from where.
RECURSIVE locateIn(_, _, _)
locateIn(i, tree, fails) ==
    IF i > Len(FolderCandidates)
    THEN LET content == promptFileAt(tree["root"], fails["root"])
         IN  [value |-> content,
              source |-> IF found(content) /\ content # "throws"
                         THEN "root" ELSE "none"]
    ELSE LET folderName == FolderCandidates[i]
             content == promptFileAt(tree[folderName], fails[folderName])
         IN  IF content = "throws" THEN [value |-> "throws", source |-> "none"]
             ELSE IF found(content)
             THEN [value |-> content, source |-> folderName]
             ELSE locateIn(i + 1, tree, fails)

Locate ==
    /\ locate.tree # <<>>
    /\ locate.result = <<>>
    /\ locate' = [locate EXCEPT !.result = <<locateIn(1, locate.tree[1], locate.fails[1])>>]
    /\ UNCHANGED <<pipeVars, ingest, folder, clock, dash, inbox, search, selection, transfer>>

\* Every content of the watched folder and every combination of failing queries.
LocateInit ==
    /\ QuietPipeline
    /\ BenchIdle
    /\ TransferIdle
    /\ SearchIdle
    /\ SelectionIdle
    /\ locate \in [tree : {<<t>> : t \in Trees}, fails : {<<f>> : f \in SearchFailures},
                    result : {<<>>}]

LocateNext == Locate

LocateSpec == LocateInit /\ [][LocateNext]_vars

\* ------------------------------------------------------- model selection

\* What the catch around the analysis leaves in analysisText.
AnalysisErrorText == "error"

\* Model identifiers as texts cut into parts; " " is a white-space character.
DEFAULT_MODEL == <<"gemini-2.5-flash">>
ModelParts == {" ", "claude", "Claude", "gemini-2.5-flash", "-opus"}
MaxModelParts == 2

\* The download of _config/model.txt, trimmed; a missing file and a failing
\* read both throw, and the catch block keeps the default.
selectedModelOf(stored, readFails) ==
    IF stored = <<>> \/ readFails THEN DEFAULT_MODEL
    ELSE IF trim(stored[1]) # <<>> THEN trim(stored[1]) ELSE DEFAULT_MODEL

startsWithClaude_AnyPart(modelId) == \E i \in 1..Len(modelId) : modelId[i] = "claude"
\* modelId.startsWith('claude').
startsWithClaude(modelId) == modelId # <<>> /\ modelId[1] = "claude"

\* analyzeWithModel: callClaudeOnVertex (fetch) or the Vertex AI SDK.
backendOf(modelId) == IF startsWithClaude(modelId) THEN "rest" ELSE "sdk"

\* if (isInsufficient): no settings are read and no model is called;
\* selectedModel keeps its initial value.
Select_Skip ==
    /\ selection.insufficient
    /\ selection.backend = <<>>
    /\ selection' = [selection EXCEPT !.model = <<DEFAULT_MODEL>>, !.backend = <<"none">>]
    /\ UNCHANGED <<pipeVars, ingest, folder, clock, dash, inbox, search, locate, transfer>>

\* The settings are read: the prompt (one resolution) and the model, which
\* is set from the stored model whatever the prompt.
Select_Model ==
    /\ ~selection.insufficient
    /\ selection.model = <<>>
    /\ selection.backend = <<>>
    /\ selection' = [selection EXCEPT
                        !.model = <<selectedModelOf(selection.stored, selection.readFails)>>,
                        !.lookups = @ + 1]
    /\ UNCHANGED <<pipeVars, ingest, folder, clock, dash, inbox, search, locate, transfer>>

AnalysisAttempts_Retry(failed) == IF failed THEN 2 ELSE 1
\* The calls of analyzeWithModel made with a prompt: the one call of the
\* if (promptContent) branch, whether it throws or not.
AnalysisAttempts(failed) == 1

\* if (promptContent) analysisText = await analyzeWithModel(...); an error of
\* the Drive search or of the call is caught and becomes the analysis text.
Select_Analyze ==
    /\ ~selection.insufficient
    /\ selection.model # <<>>
    /\ selection.backend = <<>>
    /\ selection' =
          IF selection.prompt = "throws"
          THEN [selection EXCEPT !.backend = <<"none">>, !.analysisText = AnalysisErrorText]
          ELSE IF selection.prompt = "none"
          THEN [selection EXCEPT !.backend = <<"none">>]
          ELSE [selection EXCEPT
                   !.backend = <<backendOf(selection.model[1])>>,
                   !.aiCalls = @ + AnalysisAttempts(selection.reply = "throws"),
                   !.analysisText = IF selection.reply = "throws" THEN AnalysisErrorText
                                    ELSE IF selection.reply = "empty" THEN "none"
                                    ELSE "text"]
    /\ UNCHANGED <<pipeVars, ingest, folder, clock, dash, inbox, search, locate, transfer>>

\* Every stored model text within the bound, or none; the read fails or
\* not; the prompt came from the dashboard, from Drive, there is none, or the
\* Drive search throws; the model answers with text, with nothing, or throws.
SelectInit ==
    /\ QuietPipeline
    /\ BenchIdle
    /\ TransferIdle
    /\ SearchIdle
    /\ LocateIdle
    /\ selection \in [insufficient : BOOLEAN,
                       stored : {<<>>} \cup {<<t>> : t \in SeqUpTo(ModelParts, MaxModelParts)},
                       readFails : BOOLEAN,
                       prompt : {"central", "drive", "none", "throws"},
                       reply : {"text", "empty", "throws"},
                       model : {<<>>}, backend : {<<>>}, lookups : {0}, aiCalls : {0},
                       analysisText : {"none"}]

SelectNext == Select_Skip \/ Select_Model \/ Select_Analyze

SelectSpec == SelectInit /\ [][SelectNext]_vars

\* ------------------------------------------ large-download job: one execution

\* The retries of a failed task (jobs.tf).
max_retries == 3

\* The environments an execution can be started with: every required
\* variable set or missing, the optional PARENT_FOLDER_ID set or not.
JobEnvs == [FILE_ID : BOOLEAN, FILE_NAME : BOOLEAN, DEST_BUCKET : BOOLEAN,
            PARENT_FOLDER_ID : BOOLEAN]

resolvesOn_End(event) == event \in {"end", "finish"}
\* The stream event that resolves the promise main awaits.
resolvesOn(event) == event = "finish"

\* process.exit(code).
Exited(code, cause) == [transfer EXCEPT !.pc = "exited", !.exit = <<code>>, !.err = cause]

\* The checks of the environment, the authentication and drive.files.get.
Job_Start ==
    /\ transfer.pc = "start"
    /\ LET env == transfer.env[1]
       IN  IF ~env.FILE_ID \/ ~env.FILE_NAME \/ ~env.DEST_BUCKET
           THEN transfer' = Exited(1, "env")
           ELSE \/ transfer' = Exited(1, "get")
                \/ transfer' = [transfer EXCEPT !.pc = "streaming"]
    /\ UNCHANGED <<pipeVars, ingest, folder, clock, dash, inbox, search, locate, selection>>

\* res.data emits 'end': logged; the write stream is ended by the pipe.
Job_SourceEnd ==
    /\ transfer.pc = "streaming"
    /\ ~transfer.ended
    /\ transfer' = IF resolvesOn("end") THEN [Exited(0, "none") EXCEPT !.ended = TRUE]
                   ELSE [transfer EXCEPT !.ended = TRUE]
    /\ UNCHANGED <<pipeVars, ingest, folder, clock, dash, inbox, search, locate, selection>>

\* res.data emits 'error': the promise rejects, the catch block exits.
Job_SourceError ==
    /\ transfer.pc = "streaming"
    /\ ~transfer.ended
    /\ transfer' = Exited(1, "source")
    /\ UNCHANGED <<pipeVars, ingest, folder, clock, dash, inbox, search, locate, selection>>

\* writeStream emits 'error'.
Job_DestError ==
    /\ transfer.pc = "streaming"
    /\ transfer' = Exited(1, "dest")
    /\ UNCHANGED <<pipeVars, ingest, folder, clock, dash, inbox, search, locate, selection>>

\* writeStream emits 'finish': the object is complete in the bucket.
Job_Finish ==
    /\ transfer.pc = "streaming"
    /\ transfer.ended
    /\ transfer' = IF resolvesOn("finish") THEN [Exited(0, "none") EXCEPT !.written = TRUE]
                   ELSE [transfer EXCEPT !.written = TRUE]
    /\ UNCHANGED <<pipeVars, ingest, folder, clock, dash, inbox, search, locate, selection>>

\* The platform starts a failed task again, max_retries times.
Job_Retry ==
    /\ transfer.pc = "exited"
    /\ transfer.exit = <<1>>
    /\ transfer.attempt <= max_retries
    /\ transfer' = [transfer EXCEPT !.attempt = @ + 1, !.pc = "start", !.ended = FALSE,
                                    !.err = "none", !.exit = <<>>]
    /\ UNCHANGED <<pipeVars, ingest, folder, clock, dash, inbox, search, locate, selection>>

TransferInit ==
    /\ QuietPipeline
    /\ BenchIdle
    /\ SearchIdle
    /\ LocateIdle
    /\ SelectionIdle
    /\ transfer \in [env : {<<e>> : e \in JobEnvs}, attempt : {1}, pc : {"start"},
                      ended : {FALSE}, written : {FALSE}, err : {"none"}, exit : {<<>>}]

TransferNext ==
    \/ Job_Start
    \/ Job_SourceEnd
    \/ Job_SourceError
    \/ Job_DestError
    \/ Job_Finish
    \/ Job_Retry

TransferSpec == TransferInit /\ [][TransferNext]_vars

\* --------------------------------------------------------------- dashboard

\* Texts are sequences of characters; the empty text also stands for a
\* missing query parameter (both are falsy).
DASHBOARD_PASSWORD == <<"s">>
WrongPassword == <<"x">>
Colon == <<":">>

\* The Authorization headers a client may send: none (<<>>), some other
\* scheme, or Basic with the decoded credentials (user-id ":" password, or
\* no colon at all).
Credentials ==
    {Colon \o DASHBOARD_PASSWORD,
     <<"u">> \o Colon \o DASHBOARD_PASSWORD,
     <<"u">> \o Colon \o WrongPassword,
     <<"u">> \o Colon \o DASHBOARD_PASSWORD \o Colon \o WrongPassword,
     <<"u">>}
AuthHeaders ==
    {<<>>} \cup {<<[scheme |-> "Basic", credentials |-> c]>> : c \in Credentials}
           \cup {<<[scheme |-> "Bearer", credentials |-> <<"u">> \o Colon \o DASHBOARD_PASSWORD]>>}

Requests ==
    [p : {<<>>, DASHBOARD_PASSWORD, WrongPassword},
     password : {<<>>, DASHBOARD_PASSWORD},
     authorization : AuthHeaders,
     method : {"GET", "POST"},
     action : {"none", "saveSettings"},
     prompt : {"", "text"}]

\* str.split(':'): the fields between the colons; field is the one being read.
RECURSIVE split(_, _)
split(str, field) ==
    IF str = <<>> THEN <<field>>
    ELSE IF Head(str) = ":" THEN <<field>> \o split(Tail(str), <<>>)
    ELSE split(Tail(str), Append(field, Head(str)))

\* The check at the head of the handler: the query parameter p or password,
\* else the second field of the Basic credentials.
authorized(req) ==
    LET urlPassword == IF req.p # <<>> THEN req.p ELSE req.password
    IN  IF urlPassword = DASHBOARD_PASSWORD THEN TRUE
        ELSE IF req.authorization = <<>> THEN FALSE
        ELSE IF req.authorization[1].scheme # "Basic" THEN FALSE
        ELSE LET fields == split(req.authorization[1].credentials, <<>>)
             IN  Len(fields) >= 2 /\ fields[2] = DASHBOARD_PASSWORD

\* A client sends a request.
Dash_Request ==
    /\ dash.req = <<>>
    /\ \E req \in Requests : dash' = [dash EXCEPT !.req = <<req>>]
    /\ UNCHANGED <<pipeVars, ingest, folder, clock, inbox, probeVars>>

\* The handler: 401 without reading or writing anything; a saveSettings POST
\* saves both configuration files; every other request reads the
\* configuration and the listings of both buckets.
Dash_Handle ==
    /\ dash.req # <<>>
    /\ LET req == dash.req[1]
       IN  IF ~authorized(req)
           THEN /\ dash' = [dash EXCEPT !.req = <<>>, !.served = <<req>>,
                                 !.res = <<[status |-> 401, reads |-> FALSE, wrote |-> FALSE]>>]
                /\ UNCHANGED promptConfig
           ELSE IF req.method = "POST" /\ req.action = "saveSettings"
           THEN /\ promptConfig' = [promptConfig EXCEPT
                                       !.central = IF req.prompt = "" THEN "blank" ELSE "text"]
                /\ dash' = [req |-> <<>>, served |-> <<req>>,
                            res |-> <<[status |-> 200, reads |-> FALSE, wrote |-> TRUE]>>,
                            model |-> "gemini-2.5-flash"]
           ELSE /\ dash' = [dash EXCEPT !.req = <<>>, !.served = <<req>>,
                                 !.res = <<[status |-> 200, reads |-> TRUE, wrote |-> FALSE]>>]
                /\ UNCHANGED promptConfig
    /\ UNCHANGED <<files, jobName, uploaded, tracked, pPool, transcriptData, speech,
                   promptContent, mailConfigured, sendStartEmail, tPool, scanVars, wr,
                   tVars, nVars, failures, redeliveries, hist, ingest, folder, clock, inbox, probeVars>>

DashInit ==
    /\ QuietPipeline
    /\ IngestIdle
    /\ FolderIdle
    /\ ClockIdle
    /\ DashIdle
    /\ InboxIdle
    /\ ProbesIdle

DashNext == Dash_Request \/ Dash_Handle

DashSpec == DashInit /\ [][DashNext]_vars

\* ------------------------------------------------- the two ingest paths

DriveIds == {"id1", "id2", "id3"}
FileNames == {"a.mp4", "b.mov", "c.mkv"}
ParentLists == {<<>>, <<"dirA">>, <<"dirB">>, <<"dirA", "dirB">>}
\* The files of a listing: fields id, name and parents.
DriveFiles == [id : DriveIds, name : FileNames, parents : ParentLists]

\* file.parents && file.parents.length > 0 ? file.parents[0] : null;
\* <<>> stands for null.
parentFolderIdOf(file) == IF Len(file.parents) > 0 THEN <<file.parents[1]>> ELSE <<>>

\* v || '' for a string, null or undefined v.
orEmpty(v) == IF v = <<>> \/ v = <<"">> THEN "" ELSE v[1]

\* The object downloadAndUpload writes.
downloadAndUpload(fileId, fileName, parentFolderId) ==
    [name |-> fileName,
     metadata |-> [originalDriveId |-> fileId,
                   parentFolderId |-> orEmpty(parentFolderId)]]

\* The environment overrides triggerLargeDownloadJob gives the execution
\* (DEST_BUCKET, the same bucket on both paths, is left out).
triggerLargeDownloadJob(fileId, fileName, parentFolderId) ==
    [FILE_ID |-> <<fileId>>, FILE_NAME |-> <<fileName>>,
     PARENT_FOLDER_ID |-> <<orEmpty(parentFolderId)>>]

main_WithoutParent(env) ==
    [name |-> env.FILE_NAME[1],
     metadata |-> [originalDriveId |-> env.FILE_ID[1],
                   parentFolderId |-> "",
                   processedBy |-> "large-downloader-job"]]
\* The object the large-downloader job writes from its environment.
main(env) ==
    [name |-> env.FILE_NAME[1],
     metadata |-> [originalDriveId |-> env.FILE_ID[1],
                   parentFolderId |-> orEmpty(env.PARENT_FOLDER_ID),
                   processedBy |-> "large-downloader-job"]]

Ingest_Inline ==
    /\ ingest.file # <<>>
    /\ ingest.inline = <<>>
    /\ LET file == ingest.file[1]
       IN  ingest' = [ingest EXCEPT !.inline =
                        <<downloadAndUpload(file.id, file.name, parentFolderIdOf(file))>>]
    /\ UNCHANGED <<pipeVars, folder, clock, dash, inbox, probeVars>>

Ingest_Trigger ==
    /\ ingest.file # <<>>
    /\ ingest.env = <<>>
    /\ LET file == ingest.file[1]
       IN  ingest' = [ingest EXCEPT !.env =
                        <<triggerLargeDownloadJob(file.id, file.name, parentFolderIdOf(file))>>]
    /\ UNCHANGED <<pipeVars, folder, clock, dash, inbox, probeVars>>

Ingest_Job ==
    /\ ingest.env # <<>>
    /\ ingest.job = <<>>
    /\ ingest' = [ingest EXCEPT !.job = <<main(ingest.env[1])>>]
    /\ UNCHANGED <<pipeVars, folder, clock, dash, inbox, probeVars>>

\* One file of a listing, taken through both paths.
IngestInit ==
    /\ QuietPipeline
    /\ FolderIdle
    /\ ClockIdle
    /\ DashIdle
    /\ InboxIdle
    /\ ProbesIdle
    /\ ingest \in [file : {<<f>> : f \in DriveFiles}, env : {<<>>},
                    inline : {<<>>}, job : {<<>>}]

IngestNext == Ingest_Inline \/ Ingest_Trigger \/ Ingest_Job

IngestSpec == IngestInit /\ [][IngestNext]_vars

\* ------------------------------------------------------------- transcriber

\* The store delivers a Working Record event to a free instance.
T_Deliver(s) ==
    /\ tEvents > 0
    /\ s \in tPool
    /\ tInv[s].pc = "idle"
    /\ tEvents' = tEvents - 1
    /\ tInv' = [tInv EXCEPT ![s] = [pc |-> "check", err |-> "none"]]
    /\ UNCHANGED <<envVars, scanVars, wr, vJobs, nVars, failures, redeliveries, hist>>

TAfterCheck_IgnoreMarker(marker) == "submit"
\* What the idempotency check does with the metadata it read.
TAfterCheck(marker) == IF marker THEN "skipped" ELSE "submit"

\* getMetadata and the idempotency check (outside the try block).
T_GetMetadata(s) ==
    /\ tInv[s].pc = "check"
    /\ \/ /\ wr = "absent" \/ MayFail
          /\ failures' = IF wr = "absent" THEN failures ELSE failures + 1
          /\ tInv' = [tInv EXCEPT ![s] = [pc |-> "failed", err |-> "getMetadata"]]
       \/ /\ wr # "absent"
          /\ tInv' = [tInv EXCEPT ![s].pc = TAfterCheck(wr = "started")]
          /\ UNCHANGED failures
    /\ UNCHANGED <<envVars, scanVars, wr, tEvents, vJobs, nVars, redeliveries, hist>>

TAfterSubmitFailure_MarkAnyway == "mark"
\* Where a rejected annotateVideo ends: the catch block of the handler.
TAfterSubmitFailure == "caught"
\* Where the handler ends after its catch block.
TCatchResult == "ok"

\* annotateVideo: returns once the operation is accepted.
T_Submit(s) ==
    /\ tInv[s].pc = "submit"
    /\ \/ /\ MayFail
          /\ failures' = failures + 1
          /\ tInv' = [tInv EXCEPT ![s] = [pc |-> TAfterSubmitFailure, err |-> "submit"]]
          /\ UNCHANGED <<vJobs, hist>>
       \/ /\ vJobs' = vJobs + 1
          /\ hist' = [hist EXCEPT !.submissions = Count(@)]
          /\ tInv' = [tInv EXCEPT ![s].pc = "mark"]
          /\ UNCHANGED failures
    /\ UNCHANGED <<envVars, scanVars, wr, tEvents, nVars, redeliveries>>

TAfterMarkFailure_EmailAnyway == "email"
\* Where a rejected setMetadata ends: the catch block, past the sendEmail call.
TAfterMarkFailure == "caught"

TMarked_Nothing == "fresh"
\* The state of the Working Record once transcriptionStarted is written.
TMarked == "started"

\* setMetadata({transcriptionStarted}).
T_SetMetadata(s) ==
    /\ tInv[s].pc = "mark"
    /\ \/ /\ wr = "absent" \/ MayFail
          /\ failures' = IF wr = "absent" THEN failures ELSE failures + 1
          /\ tInv' = [tInv EXCEPT ![s] = [pc |-> TAfterMarkFailure, err |-> "setMetadata"]]
          /\ UNCHANGED wr
       \/ /\ wr # "absent"
          /\ wr' = TMarked
          /\ tInv' = [tInv EXCEPT ![s].pc = "email"]
          /\ UNCHANGED failures
    /\ UNCHANGED <<envVars, scanVars, tEvents, vJobs, nVars, redeliveries, hist>>

\* sendEmail('Transcription Started', ...).
T_SendEmail(s) ==
    /\ tInv[s].pc = "email"
    /\ \/ /\ ~mailConfigured
          /\ tInv' = [tInv EXCEPT ![s].pc = "ok"]
          /\ UNCHANGED <<failures, hist>>
       \/ /\ mailConfigured
          /\ MayFail
          /\ failures' = failures + 1
          /\ tInv' = [tInv EXCEPT ![s] = [pc |-> "caught", err |-> "sendEmail"]]
          /\ UNCHANGED hist
       \/ /\ mailConfigured
          /\ hist' = [hist EXCEPT !.startedEmails = Count(@)]
          /\ tInv' = [tInv EXCEPT ![s].pc = "ok"]
          /\ UNCHANGED failures
    /\ UNCHANGED <<envVars, scanVars, wr, tEvents, vJobs, nVars, redeliveries>>

\* catch (err) { console.error(...) }: the handler returns normally.
T_Catch(s) ==
    /\ tInv[s].pc = "caught"
    /\ tInv' = [tInv EXCEPT ![s].pc = TCatchResult]
    /\ UNCHANGED <<envVars, scanVars, wr, tEvents, vJobs, nVars, failures, redeliveries, hist>>

\* The trigger: a normal return acknowledges the event, a rejected handler
\* has the event delivered again (retry_policy = RETRY_POLICY_RETRY).
T_Ack(s) ==
    /\ tInv[s].pc \in {"ok", "skipped"}
    /\ tInv' = [tInv EXCEPT ![s] = TIdle]
    /\ UNCHANGED <<envVars, scanVars, wr, tEvents, vJobs, nVars, failures, redeliveries, hist>>

T_Retry(s) ==
    /\ tInv[s].pc = "failed"
    /\ tInv' = [tInv EXCEPT ![s] = TIdle]
    /\ tEvents' = tEvents + 1
    /\ UNCHANGED <<envVars, scanVars, wr, vJobs, nVars, failures, redeliveries, hist>>

\* At-least-once delivery: an event already emitted is delivered once more.
T_Redeliver ==
    /\ hist.ingested
    /\ redeliveries < MaxRedeliver
    /\ redeliveries' = redeliveries + 1
    /\ tEvents' = tEvents + 1
    /\ UNCHANGED <<envVars, scanVars, wr, tInv, vJobs, nVars, failures, hist>>

\* The Working Record has been ingested by a completed scan and its event
\* waits for delivery.
DeliveryBase ==
    /\ ToolsIdle
    /\ files = [f \in Files |-> [durationMillis |-> 0, size |-> LARGE_FILE_THRESHOLD_BYTES]]
    /\ jobName = FALSE
    /\ uploaded = NumFiles
    /\ tracked = Oldest
    /\ pPool = {"p1"}
    /\ backfills = 0
    /\ transcriptData = EnoughSpeech
    /\ speech = GateOf(transcriptData)
    /\ promptConfig = NoPrompt
    /\ promptContent = Unresolved
    /\ watermark = <<createdTime(NumFiles)>>
    /\ scan = [p \in PSlots |-> ScanIdle]
    /\ dlJobs = 0
    /\ wr = "fresh"
    /\ tEvents = 1
    /\ tInv = [s \in TSlots |-> TIdle]
    /\ vJobs = 0
    /\ outRec = "absent"
    /\ transcriptRec = "absent"
    /\ analysisRec = "absent"
    /\ nEvents = 0
    /\ nInv = [s \in NSlots |-> NIdle]
    /\ failures = 0
    /\ redeliveries = 0
    /\ hist = [HistInit EXCEPT !.listed = TRUE, !.ingested = TRUE]

\* Deliveries of one Working Record event: the platform may run two
\* transcriber instances at once (max_instance_count = 10).
DeliveryInit ==
    /\ DeliveryBase
    /\ tPool = TSlots
    /\ mailConfigured \in BOOLEAN
    /\ sendStartEmail \in BOOLEAN

DeliveryNext ==
    \/ \E s \in TSlots : T_Deliver(s)
    \/ \E s \in TSlots : T_GetMetadata(s)
    \/ \E s \in TSlots : T_Submit(s)
    \/ \E s \in TSlots : T_SetMetadata(s)
    \/ \E s \in TSlots : T_SendEmail(s)
    \/ \E s \in TSlots : T_Catch(s)
    \/ \E s \in TSlots : T_Ack(s)
    \/ \E s \in TSlots : T_Retry(s)
    \/ T_Redeliver

DeliverySpec == DeliveryInit /\ [][DeliveryNext]_vars

\* The objects of the input bucket whose events reach the transcriber, as
\* the parts of their names between the dots: the video of Item, the state
\* file of the poller, and names that only look like videos.
ItemName == <<"talk", "MP4">>
STATE_FILE_NAME == <<"drive-poller-state", "json">>
ObjectNames ==
    {ItemName, STATE_FILE_NAME, <<"mp4">>, <<"talk", "mp4", "json">>,
     <<"talk", "mp4", "">>, <<"notes", "TXT">>}

VIDEO_EXTENSIONS == {"mp4", "mov", "avi", "mkv", "webm", "m4v", "wmv", "flv"}

\* String.prototype.toLowerCase on the name parts that occur.
toLowerCase(part) ==
    CASE part = "MP4" -> "mp4"
      [] part = "TXT" -> "txt"
      [] OTHER -> part

extOf_FirstDot(name) == IF Len(name) = 1 THEN <<>> ELSE <<toLowerCase(name[2])>>
\* name.substring(name.lastIndexOf('.')).toLowerCase(): <<e>> stands for
\* "." followed by e, <<>> for a text that does not begin with a dot (a name
\* without a dot gives substring(-1), the whole name).
extOf(name) == IF Len(name) = 1 THEN <<>> ELSE <<toLowerCase(name[Len(name)])>>

\* VIDEO_EXTENSIONS.includes(ext).
isVideo(name) == extOf(name) # <<>> /\ extOf(name)[1] \in VIDEO_EXTENSIONS

\* The store delivers the finalized event of an object of the input bucket;
\* the state file is written again by every completed scan.
T_DeliverObject(s) ==
    /\ s \in tPool
    /\ tInv[s].pc = "idle"
    /\ \E name \in ObjectNames :
         /\ inbox' = [inbox EXCEPT ![s] = <<name>>]
         /\ IF name = ItemName
            THEN tEvents > 0 /\ tEvents' = tEvents - 1
            ELSE UNCHANGED tEvents
    /\ tInv' = [tInv EXCEPT ![s] = [pc |-> "filter", err |-> "none"]]
    /\ UNCHANGED <<deployVars, scanVars, wr, vJobs, nVars, failures, redeliveries, hist,
                   ingest, folder, clock, dash, probeVars>>

\* The extension filter at the head of the handler.
T_Filter(s) ==
    /\ tInv[s].pc = "filter"
    /\ tInv' = [tInv EXCEPT ![s].pc = IF isVideo(inbox[s][1]) THEN "check" ELSE "skipped"]
    /\ UNCHANGED <<pipeVars_tInv, toolVars>>

\* Deliveries of every object of the input bucket to one instance, after a
\* completed scan has ingested Item and written the state file.
FilterInit ==
    /\ DeliveryBase
    /\ tPool = {"t1"}
    /\ mailConfigured = TRUE
    /\ sendStartEmail = TRUE

FilterNext ==
    \/ \E s \in TSlots : T_DeliverObject(s)
    \/ \E s \in TSlots : T_Filter(s)
    \/ \E s \in TSlots : T_GetMetadata(s)
    \/ \E s \in TSlots : T_Submit(s)
    \/ \E s \in TSlots : T_SetMetadata(s)
    \/ \E s \in TSlots : T_SendEmail(s)
    \/ \E s \in TSlots : T_Catch(s)
    \/ \E s \in TSlots : T_Ack(s)
    \/ \E s \in TSlots : T_Retry(s)
    \/ T_Redeliver

FilterSpec == FilterInit /\ [][FilterNext]_vars

\* ------------------------------------------------- Video Intelligence job

\* An accepted operation ends: the engine writes <name>.json to the transcript
\* bucket (a new object without custom metadata), or ends in error.  The
\* engine may have read the video before the notifier's cleanup deleted it.
VJobFinish ==
    /\ vJobs > 0
    /\ vJobs' = vJobs - 1
    /\ \/ /\ outRec' = "fresh"
          /\ nEvents' = nEvents + 1
          /\ UNCHANGED failures
       \/ /\ MayFail
          /\ failures' = failures + 1
          /\ UNCHANGED <<outRec, nEvents>>
    /\ UNCHANGED <<envVars, scanVars, wr, tEvents, tInv, transcriptRec, analysisRec,
                   nInv, redeliveries, hist>>

\* ---------------------------------------------------------------- notifier

\* The objects of the transcript bucket, as texts cut at their dots (the dot
\* is a part of its own): the Output Record <video name>.json, the artifacts
\* the notifier saves next to it, and the dashboard's configuration files.
RECURSIVE WithDots(_)
WithDots(parts) ==
    IF Len(parts) = 1 THEN parts ELSE <<Head(parts), ".">> \o WithDots(Tail(parts))
\* outputUri of the transcriber: gs://TRANSCRIPT_BUCKET/<file.name>.json.
OutputName == WithDots(ItemName) \o <<".", "json">>
PROMPT_CONFIG_FILE == <<"_config/prompt", ".", "txt">>
MODEL_CONFIG_FILE == <<"_config/model", ".", "txt">>

\* file.name.endsWith('.json').
endsWithJson(name) ==
    Len(name) >= 2 /\ name[Len(name) - 1] = "." /\ name[Len(name)] = "json"
\* file.name.replace(/\.json$/, tail).
replaceJson(name, tail) ==
    IF endsWithJson(name) THEN SubSeq(name, 1, Len(name) - 2) \o tail ELSE name

transcriptFileName_Json(name) == replaceJson(name, <<"_TRANSCRIPT", ".", "json">>)
transcriptFileName(name) == replaceJson(name, <<"_TRANSCRIPT", ".", "txt">>)
analysisFileName(name) == replaceJson(name, <<"_ANALYSIS", ".", "txt">>)

\* Where an error thrown inside the outer try block of sendNotification ends.
NOuterCatch == "caught"
\* Whether the transcript is below the sufficiency gate.
IsInsufficient == speech = "insufficient"

N_Deliver(s) ==
    /\ nEvents > 0
    /\ nInv[s].pc = "idle"
    /\ nEvents' = nEvents - 1
    /\ nInv' = [nInv EXCEPT ![s] = [NIdle EXCEPT !.pc = "check"]]
    /\ UNCHANGED <<envVars, scanVars, wr, tVars, outRec, transcriptRec, analysisRec,
                   failures, redeliveries, hist>>

NAfterCheck_IgnoreMarker(marker) == "download"
\* What the idempotency check does with the metadata it read.
NAfterCheck(marker) == IF marker THEN "skipped" ELSE "download"

\* getMetadata and the idempotency check.
N_GetMetadata(s) ==
    /\ nInv[s].pc = "check"
    /\ \/ /\ MayFail
          /\ failures' = failures + 1
          /\ nInv' = [nInv EXCEPT ![s].pc = NOuterCatch, ![s].err = "getMetadata"]
       \/ /\ nInv' = [nInv EXCEPT ![s].pc = NAfterCheck(outRec = "notified")]
          /\ UNCHANGED failures
    /\ UNCHANGED <<envVars, scanVars, wr, tVars, outRec, transcriptRec, analysisRec,
                   nEvents, redeliveries, hist>>

\* download, JSON.parse, formatTranscript and the sufficiency gate.
N_Download(s) ==
    /\ nInv[s].pc = "download"
    /\ \/ /\ MayFail
          /\ failures' = failures + 1
          /\ nInv' = [nInv EXCEPT ![s].pc = NOuterCatch, ![s].err = "download"]
       \/ /\ nInv' = [nInv EXCEPT ![s].pc = IF IsInsufficient THEN "saveTranscript"
                                                              ELSE "analyze"]
          /\ UNCHANGED failures
    /\ UNCHANGED <<envVars, scanVars, wr, tVars, outRec, transcriptRec, analysisRec,
                   nEvents, redeliveries, hist>>

NAfterAnalysisFailure_Abort == "caught"
\* Where the catch around the analysis continues.
NAfterAnalysisFailure == "saveTranscript"

\* The inner try block: resolve the prompt and the model, call the model.
N_Analyze(s) ==
    /\ nInv[s].pc = "analyze"
    /\ \E o \in ResolutionOutcomes :
         /\ o[1] = 0 \/ MayFail
         /\ LET after == failures + o[1]
                calls == o[2]
            IN  \/ \* no prompt: the analysis is skipped
                   /\ ~calls
                   /\ nInv' = [nInv EXCEPT ![s].pc = "saveTranscript"]
                   /\ failures' = after
                \/ \* analyzeWithModel returns text
                   /\ calls
                   /\ nInv' = [nInv EXCEPT ![s].pc = "saveTranscript",
                                           ![s].analysisText = "text"]
                   /\ failures' = after
                \/ \* analyzeWithModel returns the empty string: analysisText is falsy
                   /\ calls
                   /\ nInv' = [nInv EXCEPT ![s].pc = "saveTranscript"]
                   /\ failures' = after
                \/ \* analyzeWithModel throws: caught locally
                   /\ calls
                   /\ after < MaxFailures
                   /\ failures' = after + 1
                   /\ nInv' = [nInv EXCEPT ![s].pc = NAfterAnalysisFailure,
                                           ![s].err = "analysis",
                                           ![s].analysisText = AnalysisErrorText]
    /\ UNCHANGED <<envVars, scanVars, wr, tVars, outRec, transcriptRec, analysisRec,
                   nEvents, redeliveries, hist>>

NAfterSaveTranscript_Always(analysisText) == "saveAnalysis"
\* if (analysisFileName && analysisContent): both are set exactly when
\* analysisText is truthy.  "none" stands for the falsy values, null (no
\* prompt, insufficient transcript) and the empty string.
NAfterSaveTranscript(analysisText) ==
    IF analysisText # "none" THEN "saveAnalysis" ELSE "send"

NAfterSaveFailure_Continues == "send"
\* Where a rejected save of the transcript text ends: the await throws.
NAfterSaveFailure == NOuterCatch

\* bucket.file(transcriptFileName).save(transcriptContent).
N_SaveTranscript(s) ==
    /\ nInv[s].pc = "saveTranscript"
    /\ \/ /\ MayFail
          /\ failures' = failures + 1
          /\ nInv' = [nInv EXCEPT ![s].pc = NAfterSaveFailure, ![s].err = "saveTranscript"]
          /\ UNCHANGED transcriptRec
       \/ /\ transcriptRec' = IF IsInsufficient THEN "insufficient" ELSE "transcript"
          /\ nInv' = [nInv EXCEPT ![s].pc = NAfterSaveTranscript(nInv[s].analysisText),
                                  ![s].did = @ \cup {"transcript"}]
          /\ UNCHANGED failures
    /\ UNCHANGED <<envVars, scanVars, wr, tVars, outRec, analysisRec, nEvents,
                   redeliveries, hist>>

\* bucket.file(analysisFileName).save(analysisContent).
N_SaveAnalysis(s) ==
    /\ nInv[s].pc = "saveAnalysis"
    /\ \/ /\ MayFail
          /\ failures' = failures + 1
          /\ nInv' = [nInv EXCEPT ![s].pc = NOuterCatch, ![s].err = "saveAnalysis"]
          /\ UNCHANGED analysisRec
       \/ /\ analysisRec' = nInv[s].analysisText
          /\ nInv' = [nInv EXCEPT ![s].pc = "send", ![s].did = @ \cup {"analysis"}]
          /\ UNCHANGED failures
    /\ UNCHANGED <<envVars, scanVars, wr, tVars, outRec, transcriptRec, nEvents,
                   redeliveries, hist>>

NAfterSendFailure_MarkAnyway == "mark"
\* Where a rejected sendEmailOrSMS ends.
NAfterSendFailure == NOuterCatch

NAfterDryRun_SkipsMarker == "ok"
\* Where sendEmailOrSMS's early return (mail settings missing) continues:
\* the statement after the awaited call.
NAfterDryRun == "mark"

\* The subject of the notification: set in the insufficient branch, else
\* after the analysis block.
subjectOf(insufficient) ==
    IF insufficient THEN "Transcript Empty / Failed"
    ELSE "[Drive Automation] Analysis & Transcript"

attachmentsOf_TranscriptOnly(analysisText) == <<transcriptFileName(OutputName)>>
\* The attachments sendEmailOrSMS builds: the transcript, and the analysis
\* when analysisContent is set, which it is exactly when analysisText is truthy.
attachmentsOf(analysisText) ==
    <<transcriptFileName(OutputName)>>
        \o (IF analysisText # "none" THEN <<analysisFileName(OutputName)>> ELSE <<>>)

\* sendEmailOrSMS: logs only when the mail settings are missing.
N_Send(s) ==
    /\ nInv[s].pc = "send"
    /\ \/ /\ ~mailConfigured
          /\ nInv' = [nInv EXCEPT ![s].pc = NAfterDryRun, ![s].did = @ \cup {"send"}]
          /\ UNCHANGED <<failures, hist>>
       \/ /\ mailConfigured
          /\ MayFail
          /\ failures' = failures + 1
          /\ nInv' = [nInv EXCEPT ![s].pc = NAfterSendFailure, ![s].err = "send"]
          /\ UNCHANGED hist
       \/ /\ mailConfigured
          /\ hist' = [hist EXCEPT !.completionSends = Count(@)]
          /\ nInv' = [nInv EXCEPT ![s].pc = "mark", ![s].did = @ \cup {"send"},
                                  ![s].mail = <<[subject |-> subjectOf(IsInsufficient),
                                                 attachments |->
                                                     attachmentsOf(nInv[s].analysisText)]>>]
          /\ UNCHANGED failures
    /\ UNCHANGED <<envVars, scanVars, wr, tVars, outRec, transcriptRec, analysisRec,
                   nEvents, redeliveries>>

NAfterMark_NormalPathOnly(insufficient) == IF insufficient THEN "ok" ELSE "cleanup"
\* What follows the marker write: if (INPUT_BUCKET) { try { delete } ... },
\* outside the branch on isInsufficient; INPUT_BUCKET is set by the deployment.
NAfterMark(insufficient) == "cleanup"

\* setMetadata({notificationSent}).
N_SetMetadata(s) ==
    /\ nInv[s].pc = "mark"
    /\ \/ /\ MayFail
          /\ failures' = failures + 1
          /\ nInv' = [nInv EXCEPT ![s].pc = NOuterCatch, ![s].err = "setMetadata"]
          /\ UNCHANGED outRec
       \/ /\ outRec' = "notified"
          /\ nInv' = [nInv EXCEPT ![s].pc = NAfterMark(IsInsufficient),
                                  ![s].did = @ \cup {"marker"}]
          /\ UNCHANGED failures
    /\ UNCHANGED <<envVars, scanVars, wr, tVars, transcriptRec, analysisRec, nEvents,
                   redeliveries, hist>>

NAfterCleanupFailure_Throws == NOuterCatch
\* Where a rejected delete ends: catch (cleanupErr) { console.warn(...) }.
NAfterCleanupFailure == "ok"

\* Delete the source video; a failing delete is caught and logged.
N_Cleanup(s) ==
    /\ nInv[s].pc = "cleanup"
    /\ \/ /\ wr = "absent" \/ MayFail
          /\ failures' = IF wr = "absent" THEN failures ELSE failures + 1
          /\ nInv' = [nInv EXCEPT ![s].pc = NAfterCleanupFailure, ![s].err = "cleanup"]
          /\ UNCHANGED wr
       \/ /\ wr # "absent"
          /\ wr' = "absent"
          /\ nInv' = [nInv EXCEPT ![s].pc = "ok", ![s].did = @ \cup {"delete"}]
          /\ UNCHANGED failures
    /\ UNCHANGED <<envVars, scanVars, tVars, outRec, transcriptRec, analysisRec,
                   nEvents, redeliveries, hist>>

\* Where the handler ends after its outer catch block.
NCatchResult == "ok"

\* catch (err) { console.error('Error processing transcript:', err) }.
N_Catch(s) ==
    /\ nInv[s].pc = "caught"
    /\ nInv' = [nInv EXCEPT ![s].pc = NCatchResult]
    /\ UNCHANGED <<envVars, scanVars, wr, tVars, outRec, transcriptRec, analysisRec,
                   nEvents, failures, redeliveries, hist>>

\* The trigger acknowledges the event of a handler that returned.
N_Ack(s) ==
    /\ nInv[s].pc \in {"ok", "skipped"}
    /\ nInv' = [nInv EXCEPT ![s] = NIdle]
    /\ UNCHANGED <<envVars, scanVars, wr, tVars, outRec, transcriptRec, analysisRec,
                   nEvents, failures, redeliveries, hist>>

\* At-least-once delivery of the Output Record's event.
N_Redeliver ==
    /\ outRec # "absent"
    /\ redeliveries < MaxRedeliver
    /\ redeliveries' = redeliveries + 1
    /\ nEvents' = nEvents + 1
    /\ UNCHANGED <<envVars, scanVars, wr, tVars, outRec, transcriptRec, analysisRec,
                   nInv, failures, hist>>

\* The objects written into the transcript bucket by the notifier and by the
\* dashboard that exist now.
ArtifactsWritten ==
    {n \in {transcriptFileName(OutputName)} : transcriptRec # "absent"}
      \cup {n \in {analysisFileName(OutputName)} : analysisRec # "absent"}
      \cup {n \in {PROMPT_CONFIG_FILE} : promptConfig.central # "absent"}
      \cup {n \in {MODEL_CONFIG_FILE} : dash.model # "absent"}

\* The dashboard's listing.  The parts in the model that begin with '_'.
UnderscoreHeads == {PROMPT_CONFIG_FILE[1], MODEL_CONFIG_FILE[1]}
\* file.name.endsWith('_TRANSCRIPT.txt').
endsWithTranscript(name) ==
    Len(name) >= 3 /\ SubSeq(name, Len(name) - 2, Len(name)) = <<"_TRANSCRIPT", ".", "txt">>
\* transcriptBucket.getFiles() and inputBucket.getFiles().
transcriptFiles == ArtifactsWritten \cup {n \in {OutputName} : outRec # "absent"}
inputFiles ==
    {n \in {WithDots(ItemName)} : wr # "absent"}
      \cup {n \in {WithDots(STATE_FILE_NAME)} : watermark # <<>>}
\* The video names of the completed list: every *_TRANSCRIPT.txt outside
\* _config/, without that suffix.
transcriptMap ==
    {SubSeq(f, 1, Len(f) - 3) :
        f \in {n \in transcriptFiles : endsWithTranscript(n) /\ n[1] \notin UnderscoreHeads}}
\* The pending list: the input objects other than the state file and the
\* names beginning with '_' that are not in the completed list.
pendingFiles ==
    {f \in inputFiles : /\ f # WithDots(STATE_FILE_NAME)
                        /\ f[1] \notin UnderscoreHeads
                        /\ f \notin transcriptMap}

\* The store delivers the finalized event of an object of the transcript
\* bucket: the pending event of the Output Record, or the event of an object
\* the notifier or the dashboard has written (delivered at least once).
N_DeliverObject(s) ==
    /\ nInv[s].pc = "idle"
    /\ \/ /\ nEvents > 0
          /\ nEvents' = nEvents - 1
          /\ inbox' = [inbox EXCEPT ![s] = <<OutputName>>]
       \/ /\ \E name \in ArtifactsWritten : inbox' = [inbox EXCEPT ![s] = <<name>>]
          /\ UNCHANGED nEvents
    /\ nInv' = [nInv EXCEPT ![s] = [NIdle EXCEPT !.pc = "filter"]]
    /\ UNCHANGED <<deployVars, scanVars, wr, tVars, outRec, transcriptRec, analysisRec,
                   failures, redeliveries, hist, ingest, folder, clock, dash, probeVars>>

\* The suffix filter at the head of the handler.
N_Filter(s) ==
    /\ nInv[s].pc = "filter"
    /\ nInv' = [nInv EXCEPT ![s].pc = IF endsWithJson(inbox[s][1]) THEN "check"
                                                                   ELSE "skipped"]
    /\ UNCHANGED <<pipeVars_nInv, toolVars>>

\* The engine has written the Output Record of Item and its event waits for
\* delivery; the dashboard has saved its settings, or not yet.
SuffixInit ==
    /\ IngestIdle /\ FolderIdle /\ ClockIdle /\ InboxIdle /\ ProbesIdle
    /\ \E saved \in BOOLEAN :
         /\ promptConfig = [central |-> IF saved THEN "text" ELSE "absent", drive |-> {}]
         /\ dash = [req |-> <<>>, served |-> <<>>, res |-> <<>>,
                    model |-> IF saved THEN "gemini-2.5-flash" ELSE "absent"]
    /\ files = [f \in Files |-> [durationMillis |-> 0, size |-> LARGE_FILE_THRESHOLD_BYTES]]
    /\ jobName = FALSE
    /\ uploaded = NumFiles
    /\ tracked = Oldest
    /\ pPool = {"p1"}
    /\ tPool = {"t1"}
    /\ backfills = 0
    /\ mailConfigured = TRUE
    /\ sendStartEmail = TRUE
    /\ transcriptData = EnoughSpeech
    /\ speech = GateOf(transcriptData)
    /\ promptContent = Unresolved
    /\ watermark = <<createdTime(NumFiles)>>
    /\ scan = [p \in PSlots |-> ScanIdle]
    /\ dlJobs = 0
    /\ wr = "started"
    /\ tEvents = 0
    /\ tInv = [s \in TSlots |-> TIdle]
    /\ vJobs = 0
    /\ outRec = "fresh"
    /\ transcriptRec = "absent"
    /\ analysisRec = "absent"
    /\ nEvents = 1
    /\ nInv = [s \in NSlots |-> NIdle]
    /\ failures = 0
    /\ redeliveries = 0
    /\ hist = [listed |-> TRUE, ingested |-> TRUE, submissions |-> 1,
               startedEmails |-> 1, completionSends |-> 0]

SuffixNext ==
    \/ \E s \in NSlots : N_DeliverObject(s)
    \/ \E s \in NSlots : N_Filter(s)
    \/ \E s \in NSlots : N_GetMetadata(s)
    \/ \E s \in NSlots : N_Download(s)
    \/ \E s \in NSlots : N_Analyze(s)
    \/ \E s \in NSlots : N_SaveTranscript(s)
    \/ \E s \in NSlots : N_SaveAnalysis(s)
    \/ \E s \in NSlots : N_Send(s)
    \/ \E s \in NSlots : N_SetMetadata(s)
    \/ \E s \in NSlots : N_Cleanup(s)
    \/ \E s \in NSlots : N_Catch(s)
    \/ \E s \in NSlots : N_Ack(s)
    \/ N_Redeliver

SuffixSpec == SuffixInit /\ [][SuffixNext]_vars

\* Every file of Init is streamed inline and no backfill is requested, so the
\* large-download job is never triggered in these behaviours.
Next ==
    \/ \E p \in PSlots : ScanStart(p)
    \/ \E p \in PSlots : ScanItem(p)
    \/ \E p \in PSlots : ScanSave(p)
    \/ \E s \in TSlots : T_Deliver(s)
    \/ \E s \in TSlots : T_GetMetadata(s)
    \/ \E s \in TSlots : T_Submit(s)
    \/ \E s \in TSlots : T_SetMetadata(s)
    \/ \E s \in TSlots : T_SendEmail(s)
    \/ \E s \in TSlots : T_Catch(s)
    \/ \E s \in TSlots : T_Ack(s)
    \/ \E s \in TSlots : T_Retry(s)
    \/ T_Redeliver
    \/ VJobFinish
    \/ \E s \in NSlots : N_Deliver(s)
    \/ \E s \in NSlots : N_GetMetadata(s)
    \/ \E s \in NSlots : N_Download(s)
    \/ \E s \in NSlots : N_Analyze(s)
    \/ \E s \in NSlots : N_SaveTranscript(s)
    \/ \E s \in NSlots : N_SaveAnalysis(s)
    \/ \E s \in NSlots : N_Send(s)
    \/ \E s \in NSlots : N_SetMetadata(s)
    \/ \E s \in NSlots : N_Cleanup(s)
    \/ \E s \in NSlots : N_Catch(s)
    \/ \E s \in NSlots : N_Ack(s)
    \/ N_Redeliver

Spec == Init /\ [][Next]_vars

\* The platform runs a delivered handler to its end, delivers every pending
\* event, finishes every accepted operation and runs the scheduler's scans.
\* Duplicate deliveries (T_Redeliver, N_Redeliver) are not guaranteed.
Fairness ==
    /\ \A p \in PSlots : WF_vars(ScanStart(p) \/ ScanItem(p) \/ ScanSave(p))
    /\ WF_vars(VJobFinish)
    /\ \A s \in TSlots :
          WF_vars(T_Deliver(s) \/ T_GetMetadata(s) \/ T_Submit(s) \/ T_SetMetadata(s)
                  \/ T_SendEmail(s) \/ T_Catch(s) \/ T_Ack(s) \/ T_Retry(s))
    /\ \A s \in NSlots :
          WF_vars(N_Deliver(s) \/ N_GetMetadata(s) \/ N_Download(s) \/ N_Analyze(s)
                  \/ N_SaveTranscript(s) \/ N_SaveAnalysis(s) \/ N_Send(s)
                  \/ N_SetMetadata(s) \/ N_Cleanup(s) \/ N_Catch(s) \/ N_Ack(s))

FairSpec == Spec /\ Fairness

\* ------------------------------------------------------------------ claims

\* Everything a notifier invocation can write, send or delete.
NEffects == <<outRec, transcriptRec, analysisRec, wr, hist, nEvents>>
\* Everything a transcriber invocation can submit, write or send.
TEffects == <<wr, vJobs, hist>>

\* C1: an invocation of sendNotification that finds notificationSent on the
\* Output Record writes no artifact, calls no model, sends nothing, does not
\* write the marker again and deletes nothing; it returns and is acknowledged.
C1_RedeliveryIsNoOp ==
    [][\A s \in NSlots :
        /\ (nInv[s].pc = "check" /\ outRec = "notified" /\ nInv'[s] # nInv[s])
              => /\ nInv'[s].pc \in {"skipped", "caught"}
                 /\ nInv'[s].pc = "caught" => nInv'[s].err = "getMetadata"
                 /\ nInv'[s].did = {}
                 /\ UNCHANGED NEffects
        /\ (nInv[s].pc = "skipped" /\ nInv'[s] # nInv[s])
              => /\ nInv'[s] = NIdle
                 /\ UNCHANGED NEffects]_vars

C1_Witness ==
    \E s \in NSlots :
        /\ nInv[s].pc = "skipped"
        /\ outRec = "notified"
        /\ transcriptRec # "absent"

\* C2: an invocation of transcribeAudio that finds transcriptionStarted on the
\* Working Record submits nothing, writes no metadata and sends no mail.
C2_TranscriptionGuard ==
    [][\A s \in TSlots :
        /\ (tInv[s].pc = "check" /\ wr = "started" /\ tInv'[s] # tInv[s])
              => /\ tInv'[s].pc \in {"skipped", "failed"}
                 /\ UNCHANGED TEffects
        /\ (tInv[s].pc = "skipped" /\ tInv'[s] # tInv[s])
              => /\ tInv'[s] = TIdle
                 /\ UNCHANGED <<TEffects, tEvents>>]_vars

C2_Witness ==
    \E s \in TSlots :
        /\ tInv[s].pc = "skipped"
        /\ wr = "started"
        /\ hist.submissions = 1

\* C3: over scans, scan retries, stage retries and non-overlapping
\* re-deliveries, the completion mail of an item is sent at most once.
C3_AtMostOneCompletionMail == hist.completionSends <= 1

\* C4: over scans, scan retries and non-overlapping re-deliveries, an item
\* has exactly one accepted transcription submission: never a second one.
C4_SubmittedOnce == hist.submissions <= 1

\* C5: transcriptionStarted is written only after annotateVideo returned: a
\* Working Record that carries the marker has an accepted submission, the
\* invocation writing it has passed the submission without error, and an
\* invocation whose submission was rejected never gets to write it.
C5_MarkerAfterSubmission ==
    /\ wr = "started" => hist.submissions >= 1
    /\ \A s \in TSlots :
        /\ tInv[s].pc \in {"mark", "email"}
              => tInv[s].err = "none" /\ hist.submissions >= 1
        /\ tInv[s].err = "submit" => tInv[s].pc \in {"caught", "ok"}

C5_Witness ==
    /\ wr = "fresh"
    /\ hist.submissions = 0
    /\ \E s \in TSlots : tInv[s].err = "submit" /\ tInv[s].pc = "ok"

\* C6: notificationSent is written, and the Working Record deleted, only by
\* an invocation whose send has returned; an invocation whose send was
\* rejected writes no marker and deletes nothing.
C6_MarkerAfterSend ==
    [][/\ (outRec' = "notified" /\ outRec # "notified")
            => \E s \in NSlots : nInv'[s] # nInv[s] /\ "send" \in nInv[s].did
       /\ (wr' = "absent" /\ wr # "absent")
            => \E s \in NSlots : nInv'[s] # nInv[s] /\ {"send", "marker"} \subseteq nInv[s].did
       /\ \A s \in NSlots :
            (nInv[s].err = "send" /\ nInv'[s] # nInv[s])
               => /\ "send" \notin nInv[s].did
                  /\ nInv'[s].did \subseteq nInv[s].did
                  /\ UNCHANGED <<outRec, wr>>]_vars

C6_Witness ==
    /\ outRec = "fresh"
    /\ wr = "started"
    /\ \E s \in NSlots : nInv[s].err = "send" /\ nInv[s].pc = "ok"

\* The ways a handler invocation ends.
Ended == {"ok", "skipped", "failed"}

\* C7: an invocation of transcribeAudio whose annotateVideo call was
\* rejected ends in failure, so that the trigger delivers the event again.
C7_SubmissionFailureSurfaces ==
    \A s \in TSlots :
        (tInv[s].err = "submit" /\ tInv[s].pc \in Ended) => tInv[s].pc = "failed"

\* C8: an invocation of sendNotification in which reading or parsing the
\* Output Record, saving an artifact, sending or writing the marker failed
\* ends in failure, so that the trigger delivers the event again.
C8_NotifierErrorsSurface ==
    \A s \in NSlots :
        (/\ nInv[s].err \in {"getMetadata", "download", "saveTranscript",
                              "saveAnalysis", "send", "setMetadata"}
         /\ nInv[s].pc \in Ended) => nInv[s].pc = "failed"

\* C9: under the platform's fairness and finitely many failing calls, every
\* ingested item eventually has notificationSent on its Output Record.
C9_Liveness == hist.ingested ~> (outRec = "notified")

\* C10: a failing analysis does not end the stage: analysisText is the error
\* text, the invocation goes on to save the transcript and the analysis
\* record holding the error text, sends, and writes the marker; it ends
\* early only if one of those later calls fails itself.
C10_AnalysisFailureIsPartialSuccess ==
    \A s \in NSlots :
        /\ nInv[s].err = "analysis"
              => /\ nInv[s].analysisText = "error"
                 /\ nInv[s].pc \in {"saveTranscript", "saveAnalysis", "send", "mark",
                                    "cleanup", "ok"}
        /\ nInv[s].analysisText = "error"
              => /\ nInv[s].pc \in {"saveAnalysis", "send", "mark", "cleanup"}
                       => "transcript" \in nInv[s].did /\ transcriptRec = "transcript"
                 /\ nInv[s].pc \in {"send", "mark", "cleanup"}
                       => "analysis" \in nInv[s].did /\ analysisRec = "error"
                 /\ nInv[s].pc \in {"mark", "cleanup"} => "send" \in nInv[s].did
                 /\ nInv[s].pc = "cleanup" => "marker" \in nInv[s].did
                 /\ (nInv[s].pc = "ok" /\ nInv[s].err \in {"analysis", "cleanup"})
                       => /\ {"transcript", "analysis", "send", "marker"} \subseteq nInv[s].did
                          /\ analysisRec = "error"

C10_Witness ==
    \E s \in NSlots :
        /\ nInv[s].pc = "ok"
        /\ nInv[s].err = "analysis"
        /\ nInv[s].did = {"transcript", "analysis", "send", "marker", "delete"}
        /\ analysisRec = "error"
        /\ outRec = "notified"

\* An invocation that has passed the idempotency check and did not fail
\* before or during the saving of its artifacts.
PastPersistence(s) ==
    \/ nInv[s].pc \in {"send", "mark", "cleanup"}
    \/ /\ nInv[s].pc \in {"caught", "ok"}
       /\ nInv[s].err \in {"none", "analysis", "send", "setMetadata", "cleanup"}

\* C11: an invocation of sendNotification that got past the saving of its
\* artifacts has written the Transcript Text Record, once; it has written the
\* Analysis Text Record exactly when analysisText holds text (the analysis
\* or the error text), once, and never for an insufficient transcript.
C11_ArtifactPersistence ==
    \A s \in NSlots :
        /\ PastPersistence(s)
              => /\ "transcript" \in nInv[s].did
                 /\ transcriptRec # "absent"
                 /\ ("analysis" \in nInv[s].did) <=> (nInv[s].analysisText \in {"text", "error"})
                 /\ "analysis" \in nInv[s].did => analysisRec = nInv[s].analysisText
        /\ nInv[s].pc = "saveTranscript" => nInv[s].did = {}
        /\ nInv[s].pc = "saveAnalysis" => nInv[s].did = {"transcript"}
        /\ IsInsufficient
              => /\ nInv[s].analysisText = "none"
                 /\ "analysis" \notin nInv[s].did
                 /\ analysisRec = "absent"
                 /\ transcriptRec \in {"absent", "insufficient"}

C11_Witness ==
    \E s \in NSlots :
        /\ nInv[s].pc = "ok"
        /\ nInv[s].err = "none"
        /\ nInv[s].analysisText = "text"
        /\ {"transcript", "analysis"} \subseteq nInv[s].did
        /\ analysisRec = "text"
        /\ transcriptRec = "transcript"

\* The speech words of an Output Record: what is left of its formatted
\* transcript when every label is taken away.
RECURSIVE SpeechWords(_)
SpeechWords(data) ==
    IF data = <<>> THEN 0 ELSE Head(data).words + SpeechWords(Tail(data))

\* C12: with W the number of speech words of the transcript, labels of
\* either form not counted, the stage takes the insufficient-data path when
\* the transcript is absent or W <= 9 and the analysis path when W >= 10.
C12_SufficiencyGate ==
    speech # "unknown"
        => /\ SpeechWords(transcriptData) < MinWords => speech = "insufficient"
           /\ SpeechWords(transcriptData) >= MinWords => speech = "sufficient"

CentralRead == promptConfig.central = "text" /\ "central" \notin promptContent.failed
DriveRead == promptConfig.drive \ promptContent.failed

ThreeHours == 3 * 3600000
\* Item declares a duration above the ceiling (0: no duration declared).
OverCeiling == files[Item].durationMillis > ThreeHours

C16_WatermarkNeverSkips ==
    (/\ hist.listed
     /\ ~OverCeiling
     /\ watermark # <<>>
     /\ watermark[1] >= createdTime(Item)) => hist.ingested

\* Item has been streamed to the bucket or handed to the download job.
Dispatched == hist.ingested \/ dlJobs > 0

\* C17: with two scans overlapping in any way and the watermark written
\* last-write-wins, the stored watermark never reaches an eligible item that
\* no scan has ingested, and every eligible item in the Drive tree is
\* ingested by some scan in the end.
C17_OverlapSelfCorrecting ==
    /\ []((watermark[1] >= createdTime(Item) /\ Item <= uploaded /\ ~OverCeiling)
              => Dispatched)
    /\ ((Item <= uploaded /\ ~OverCeiling) ~> Dispatched)

\* The two scans have overlapped, the later write has put the watermark back
\* before Item, and Item has been ingested.
C17_Witness ==
    /\ \E p, q \in PSlots :
          /\ p # q
          /\ scan[p].pc = "idle"
          /\ scan[q].pc = "save"
          /\ scan[q].newestTime >= createdTime(Item)
    /\ watermark[1] < createdTime(Item)
    /\ Item <= uploaded
    /\ ~OverCeiling
    /\ hist.ingested
    /\ tEvents > 1

\* C18: the Working Record is deleted only by an invocation that has sent
\* the notification and written notificationSent; a delete that fails is
\* caught: the invocation ends normally at once, and neither the marker nor
\* the Working Record is touched by that step.
C18_CleanupNeverCostsNotification ==
    [][/\ (wr' = "absent" /\ wr # "absent")
            => \E s \in NSlots : /\ nInv[s].pc = "cleanup"
                                 /\ {"send", "marker"} \subseteq nInv[s].did
                                 /\ nInv'[s].pc = "ok"
       /\ \A s \in NSlots :
            (nInv[s].pc = "cleanup" /\ nInv'[s] # nInv[s])
               => /\ {"send", "marker"} \subseteq nInv[s].did
                  /\ nInv'[s].pc = "ok"
                  /\ nInv'[s].did \in {nInv[s].did, nInv[s].did \cup {"delete"}}
                  /\ outRec' = outRec
                  /\ "delete" \notin nInv'[s].did
                        => nInv'[s].err = "cleanup" /\ wr' = wr]_vars

\* The delete was rejected while the Working Record existed; the invocation
\* has ended normally and the marker is set.
C18_Witness ==
    \E s \in NSlots :
        /\ nInv[s].pc = "ok"
        /\ nInv[s].err = "cleanup"
        /\ {"send", "marker"} \subseteq nInv[s].did
        /\ "delete" \notin nInv[s].did
        /\ outRec = "notified"
        /\ wr # "absent"
        /\ failures = 1

\* C19: an invocation that has sent the notification and written the marker
\* goes on to the delete of the source video, for a sufficient and for an
\* insufficient transcript alike, and does not end without having attempted it.
C19_CleanupUnconditional ==
    \A s \in NSlots :
        "marker" \in nInv[s].did
           => /\ "send" \in nInv[s].did
              /\ nInv[s].pc \in {"cleanup", "ok"}
              /\ nInv[s].pc = "ok"
                    => ("delete" \in nInv[s].did \/ nInv[s].err = "cleanup")

\* The insufficient-data path has been taken to its end: marker written,
\* source video deleted.
C19_Witness ==
    \E s \in NSlots :
        /\ IsInsufficient
        /\ nInv[s].pc = "ok"
        /\ nInv[s].did = {"transcript", "send", "marker", "delete"}
        /\ outRec = "notified"
        /\ wr = "absent"

\* C20: an invocation reaches the 'Transcription Started' email only by the
\* step that turns an unmarked Working Record into a marked one, and sends
\* the email only from there; an invocation whose submission or marker write
\* was rejected sends none.  Deliveries of one event do not overlap here
\* (one transcriber instance), so a Working Record written once yields at
\* most one such email.
C20_StartedEmailAfterMarker ==
    [][/\ \A s \in TSlots :
             (tInv'[s].pc = "email" /\ tInv[s].pc # "email")
                => /\ tInv[s].pc = "mark"
                   /\ tInv[s].err = "none"
                   /\ wr = "fresh"
                   /\ wr' = "started"
       /\ hist'.startedEmails # hist.startedEmails
             => \E s \in TSlots : /\ tInv[s].pc = "email"
                                  /\ tInv[s].err = "none"
                                  /\ tInv'[s].pc = "ok"
                                  /\ \A t \in TSlots \ {s} : tInv'[t] = tInv[t]
       /\ \A s \in TSlots :
             tInv[s].err \in {"submit", "setMetadata"}
                => /\ hist'.startedEmails = hist.startedEmails
                   /\ tInv'[s].pc # "email"]_vars

\* The event was delivered again after the email went out: the second
\* delivery stopped at the marker, and one email was sent in all.
C20_Witness ==
    \E s \in TSlots :
        /\ tInv[s].pc = "skipped"
        /\ wr = "started"
        /\ redeliveries = 1
        /\ hist.startedEmails = 1
        /\ hist.submissions = 1

\* C21: with SEND_START_EMAIL = "false" the transcriber sends no
\* 'Transcription Started' email, whatever the mail credentials.
C21_StartEmailConfigurable == ~sendStartEmail => hist.startedEmails = 0

\* C22: a loop iteration that handles Item without a rejected call streams
\* it inline when its size is at most 1 GiB, and dispatches it to the
\* download job, without streaming it, when its size is above 1 GiB.
C22_SizeBranch ==
    [][\A p \in PSlots :
          (/\ scan[p].pc = "loop"
           /\ scan'[p] # scan[p]
           /\ scan[p].list[scan[p].idx] = Item
           /\ ~tooLong(files[Item])
           /\ failures' = failures)
             => IF files[Item].size <= LARGE_FILE_THRESHOLD_BYTES
                THEN wr' = "fresh" /\ tEvents' = tEvents + 1 /\ dlJobs' = dlJobs
                ELSE dlJobs' = dlJobs + 1 /\ wr' = wr /\ tEvents' = tEvents]_vars

BothWritten == ingest.inline # <<>> /\ ingest.job # <<>>

\* C23 (as stated): the Working Record of the inline path and the one of the
\* download job are the same: same name, same metadata.
C23_SameWorkingRecord == BothWritten => ingest.inline[1] = ingest.job[1]

\* C23 (amended): the two Working Records have the same name and the same
\* originalDriveId and parentFolderId (the file's id; its first parent, or ''
\* when it has none), neither carries transcriptionStarted, and the job's
\* record carries one more key, processedBy.
C23_SameProvenance ==
    BothWritten =>
        LET a == ingest.inline[1]
            b == ingest.job[1]
            file == ingest.file[1]
        IN  /\ a.name = file.name /\ b.name = file.name
            /\ a.metadata.originalDriveId = file.id
            /\ b.metadata.originalDriveId = file.id
            /\ a.metadata.parentFolderId = b.metadata.parentFolderId
            /\ a.metadata.parentFolderId =
                   (IF file.parents = <<>> THEN "" ELSE file.parents[1])
            /\ DOMAIN a.metadata = {"originalDriveId", "parentFolderId"}
            /\ DOMAIN b.metadata = DOMAIN a.metadata \cup {"processedBy"}

\* A file with two parents has been written by both paths.
C23_Witness ==
    /\ BothWritten
    /\ Len(ingest.file[1].parents) = 2
    /\ ingest.job[1].metadata.parentFolderId = "dirA"

\* C24: with a mail credential or the recipient unset, nothing is delivered
\* and no send fails; an invocation that reached the send has written its
\* artifacts, is past the send as after a delivery, and goes on to the marker
\* write and from there to the deletion attempt.
C24_DryRunNotification ==
    ~mailConfigured =>
        /\ hist.completionSends = 0
        /\ \A s \in NSlots :
              /\ nInv[s].err # "send"
              /\ "send" \in nInv[s].did => "transcript" \in nInv[s].did
              /\ nInv[s].pc \in {"mark", "cleanup"} => "send" \in nInv[s].did
              /\ ("send" \in nInv[s].did /\ "marker" \notin nInv[s].did)
                    => (nInv[s].pc = "mark" \/ nInv[s].err = "setMetadata")
              /\ ("marker" \in nInv[s].did /\ nInv[s].pc # "cleanup")
                    => ("delete" \in nInv[s].did \/ nInv[s].err = "cleanup")

\* Without mail settings an invocation has gone through to the end: both
\* artifacts of a sufficient transcript, the marker, the deletion, no mail.
C24_Witness ==
    /\ ~mailConfigured
    /\ hist.completionSends = 0
    /\ outRec = "notified"
    /\ transcriptRec = "transcript"
    /\ wr = "absent"
    /\ \E s \in NSlots :
          /\ nInv[s].pc = "ok"
          /\ nInv[s].err = "none"
          /\ {"transcript", "send", "marker", "delete"} \subseteq nInv[s].did

IsPrefix(p, t) == Len(p) <= Len(t) /\ SubSeq(t, 1, Len(p)) = p
LastOf(str) == str[Len(str)]

\* C25: the result of sanitizeParentFolderId on a string followed by
\* underscores (1) does not end in '_', (2) is a prefix of the argument and
\* (3) ends with the last character of the string when the string is not
\* empty and does not end in '_'.
C25_Sanitization ==
    folder.sanitized # <<>> =>
        LET out == folder.sanitized[1]
        IN  /\ out # <<>> => LastOf(out) # "_"
            /\ IsPrefix(out, FolderId)
            /\ (folder.base # <<>> /\ LastOf(folder.base) # "_")
                  => (out # <<>> /\ LastOf(out) = LastOf(folder.base))

\* The label the claim gives an offset of t whole seconds: M:SS below one
\* hour, H:MM:SS from one hour on.
TwoDigits(n) == <<n \div 10, n % 10>>
Label(t) ==
    IF t < 3600
    THEN <<Digits(t \div 60), TwoDigits(t % 60)>>
    ELSE <<Digits(t \div 3600), TwoDigits((t \div 60) % 60), TwoDigits(t % 60)>>

\* C26: formatTime gives an offset of t whole seconds the label M:SS
\* (t < 3600) or H:MM:SS (t >= 3600) with zero-padded minutes and seconds,
\* the same for the string and the {seconds, nanos} representation, and
\* 0:00 for an absent offset.
C26_TimeFormatting ==
    /\ \A r \in {clock.string, clock.object} :
          r # <<>> =>
             /\ r[1] = (IF clock.offset = <<>> THEN <<<<0>>, <<0, 0>>>>
                        ELSE Label(clock.offset[1]))
             /\ clock.offset = <<0>> => r[1] = <<<<0>>, <<0, 0>>>>
             /\ clock.offset = <<65>> => r[1] = <<<<1>>, <<0, 5>>>>
             /\ clock.offset = <<3725>> => r[1] = <<<<1>>, <<0, 2>>, <<0, 5>>>>
    /\ (clock.string # <<>> /\ clock.object # <<>>) => clock.string = clock.object

\* 3725 seconds have been formatted from both representations.
C26_Witness ==
    /\ clock.offset = <<3725>>
    /\ clock.string = <<<<<<1>>, <<0, 2>>, <<0, 5>>>>>>
    /\ clock.object = clock.string

\* The password of Basic credentials: what follows the first colon.
RECURSIVE AfterColon(_)
AfterColon(str) ==
    IF str = <<>> THEN <<>>
    ELSE IF Head(str) = ":" THEN <<Tail(str)>>
    ELSE AfterColon(Tail(str))

\* The request carries the shared secret as a query parameter or as the
\* basic-auth password.
CarriesSecret(req) ==
    \/ req.p = DASHBOARD_PASSWORD
    \/ req.password = DASHBOARD_PASSWORD
    \/ /\ req.authorization # <<>>
       /\ req.authorization[1].scheme = "Basic"
       /\ AfterColon(req.authorization[1].credentials) = <<DASHBOARD_PASSWORD>>

\* C27: a request that carries the shared secret neither as a query
\* parameter nor as the basic-auth password is answered with 401, reads
\* nothing and writes nothing; the Configuration Records are written only
\* by a saveSettings POST that carries the secret.
C27_DashboardBoundary ==
    dash.served # <<>> =>
        LET req == dash.served[1]
            res == dash.res[1]
        IN  /\ ~CarriesSecret(req)
                 => (res.status = 401 /\ ~res.reads /\ ~res.wrote)
            /\ res.wrote
                 => (req.method = "POST" /\ req.action = "saveSettings"
                     /\ CarriesSecret(req))

\* The name does not end in one of the allowed video extensions (compared
\* without regard to case).
NotAVideoName(name) ==
    \/ Len(name) = 1
    \/ toLowerCase(name[Len(name)]) \notin VIDEO_EXTENSIONS

\* C28: an invocation given an object whose name does not end in a video
\* extension ends at the filter: no step of it reads the metadata, submits a
\* job, writes the marker or sends mail.
C28_NonVideoIgnored ==
    [][\A s \in TSlots :
          (/\ tInv[s].pc # "idle"
           /\ tInv'[s] # tInv[s]
           /\ inbox[s] # <<>>
           /\ NotAVideoName(inbox[s][1]))
             => /\ tInv[s].pc \in {"filter", "skipped"}
                /\ tInv'[s].pc \in {"skipped", "idle"}
                /\ tInv'[s].err = "none"
                /\ UNCHANGED <<wr, tEvents, vJobs, failures, hist>>]_vars

\* The event of the state file has been delivered and dropped at the filter,
\* before anything was done for Item.
C28_Witness ==
    \E s \in TSlots :
        /\ inbox[s] = <<STATE_FILE_NAME>>
        /\ tInv[s].pc = "skipped"
        /\ wr = "fresh"
        /\ tEvents = 1
        /\ hist.submissions = 0
        /\ hist.startedEmails = 0

\* C29: an invocation given the event of an object the notifier or the
\* dashboard has written (an artifact or a configuration file) ends at the
\* suffix filter: no step of it sends, writes an artifact or a marker, or
\* deletes, and it emits no event.
C29_NoFeedbackLoop ==
    [][\A s \in NSlots :
          (/\ nInv[s].pc # "idle"
           /\ nInv'[s] # nInv[s]
           /\ inbox[s] # <<>>
           /\ inbox[s][1] \in ArtifactsWritten)
             => /\ nInv[s].pc \in {"filter", "skipped"}
                /\ nInv'[s].pc \in {"skipped", "idle"}
                /\ nInv'[s].did = {}
                /\ UNCHANGED <<wr, outRec, transcriptRec, analysisRec, nEvents,
                               failures, hist>>]_vars

\* The Output Record has been processed, and the event of the transcript
\* artifact it wrote has been delivered and dropped at the filter.
C29_Witness ==
    \E s \in NSlots :
        /\ inbox[s] = <<transcriptFileName(OutputName)>>
        /\ nInv[s].pc = "skipped"
        /\ transcriptRec = "transcript"
        /\ outRec = "notified"
        /\ hist.completionSends = 1
        /\ nEvents = 0

\* A delivery is in its window: started, its marker write not yet attempted.
InWindow(s) == tInv[s].pc \in {"check", "submit", "mark"}

\* C30: as long as no call fails and no delivery of the Working Record event
\* is in its window while another is (each starts after the marker write of
\* the one before), at most one submission is issued; the witness is the
\* race: two overlapping deliveries have both submitted before either wrote
\* the marker.
C30_SequentialDeliveriesSubmitOnce ==
    [](failures = 0 /\ Cardinality({s \in TSlots : InWindow(s)}) <= 1)
        => [](hist.submissions <= 1 /\ vJobs <= 1)

C30_Witness ==
    /\ failures = 0
    /\ wr = "fresh"
    /\ hist.submissions = 2
    /\ vJobs = 2
    /\ \A s \in TSlots : tInv[s].pc = "mark"

\* The id without its trailing underscores: its longest prefix that does not
\* end in one.
WithoutTrailing(id) ==
    LET k == CHOOSE k \in 0..Len(id) :
                 /\ k = 0 \/ id[k] # "_"
                 /\ \A j \in (k + 1)..Len(id) : id[j] = "_"
    IN  SubSeq(id, 1, k)

\* A folder id without white space that ends in underscores after at least
\* one other character.
EndsInSeparator(id) ==
    /\ id # <<>>
    /\ id[Len(id)] = "_"
    /\ \A i \in 1..Len(id) : id[i] # " "
    /\ WithoutTrailing(id) # <<>>

\* C31: for a folder id that ends in one or more '_', findSubfolderId and
\* findPromptFile report 'not found' only after the literal id and then the
\* id without the trailing '_' have been queried, whatever the queries answer.
C31_BothVariantsTried ==
    (search.id # <<>> /\ EndsInSeparator(search.id[1]))
        => \A call \in {search.subfolder, search.promptFile} :
              (call # <<>> /\ call[1].result = "null")
                  => call[1].queried = <<search.id[1], WithoutTrailing(search.id[1])>>

\* The candidate subfolders that hold a prompt file with text.
Holding == {i \in 1..Len(FolderCandidates) : locate.tree[1][FolderCandidates[i]] = "text"}

Brought(l) ==
    IF locate.fails[1][l] = "list" \/ locate.tree[1][l] \in {"missing", "nofile"} THEN "null"
    ELSE IF locate.fails[1][l] = "stream" THEN "throws"
    ELSE locate.tree[1][l]
\* The candidate subfolders whose queries end the search: with text, or
\* with a rejected download.
Ending == {i \in 1..Len(FolderCandidates) : Brought(FolderCandidates[i]) \in {"text", "throws"}}

Identifier(text) ==
    LET solid == {i \in 1..Len(text) : text[i] # " "}
    IN  IF solid = {} THEN <<>>
        ELSE SubSeq(text, CHOOSE i \in solid : \A j \in solid : i <= j,
                          CHOOSE i \in solid : \A j \in solid : j <= i)

C34_OneInferenceCall ==
    /\ selection.aiCalls <= 1
    /\ selection.lookups <= 1
    /\ selection.insufficient => selection.aiCalls = 0 /\ selection.lookups = 0
    /\ selection.backend # <<>>
          => /\ selection.aiCalls =
                   IF ~selection.insufficient /\ selection.prompt \in {"central", "drive"}
                   THEN 1 ELSE 0
             /\ ~selection.insufficient => selection.lookups = 1

\* A prompt was resolved, the one call has failed and its error has become
\* the analysis text.
C34_Witness ==
    /\ ~selection.insufficient
    /\ selection.prompt = "drive"
    /\ selection.reply = "throws"
    /\ selection.backend # <<>>
    /\ selection.aiCalls = 1
    /\ selection.analysisText = AnalysisErrorText

\* C35: the notification carries the transcript as its first attachment and
\* the analysis as a second one exactly when the invocation has written an
\* Analysis Text Record: two attachments after a successful or a failed
\* analysis, one without a prompt and for an insufficient transcript, which
\* alone has the 'Transcript Empty / Failed' subject.
C35_NotificationContent ==
    \A s \in NSlots :
        nInv[s].mail # <<>>
            => LET m == nInv[s].mail[1]
               IN  /\ "transcript" \in nInv[s].did
                   /\ m.attachments[1] = WithDots(ItemName) \o <<"_TRANSCRIPT", ".", "txt">>
                   /\ Len(m.attachments) = IF "analysis" \in nInv[s].did THEN 2 ELSE 1
                   /\ Len(m.attachments) = 2
                         => m.attachments[2] = WithDots(ItemName) \o <<"_ANALYSIS", ".", "txt">>
                   /\ nInv[s].analysisText \in {"text", AnalysisErrorText}
                         => Len(m.attachments) = 2
                   /\ IsInsufficient
                         => Len(m.attachments) = 1 /\ m.subject = "Transcript Empty / Failed"
                   /\ ~IsInsufficient
                         => m.subject = "[Drive Automation] Analysis & Transcript"

\* The analysis call has failed and the notification went out with both
\* attachments.
C35_Witness ==
    \E s \in NSlots :
        /\ nInv[s].mail # <<>>
        /\ nInv[s].analysisText = AnalysisErrorText
        /\ Len(nInv[s].mail[1].attachments) = 2
        /\ hist.completionSends = 1

\* Nothing is running and nothing is waiting: no request, invocation,
\* operation, job or event is left that could move the item on.
Stalled ==
    /\ scan = [p \in PSlots |-> ScanIdle]
    /\ tInv = [s \in TSlots |-> TIdle]
    /\ nInv = [s \in NSlots |-> NIdle]
    /\ tEvents = 0 /\ nEvents = 0 /\ vJobs = 0 /\ dlJobs = 0

\* C36: an item whose Working Record exists and whose Output Record does not
\* carry notificationSent is in the dashboard's pending list while its
\* pipeline is stalled.
C36_DeadLetterVisibility ==
    (Stalled /\ wr # "absent" /\ outRec # "notified")
        => WithDots(ItemName) \in pendingFiles

\* C37: an execution of the large-download job exits with success only
\* when the Working Record is completely written, and with failure when a
\* required variable is missing, when the download cannot be started and
\* when the source or the destination stream fails; a failed execution is
\* started again while the retries last.
C37_JobSuccessMeansWritten ==
    /\ transfer.exit = <<0>>
          => /\ transfer.written
             /\ transfer.ended
             /\ transfer.err = "none"
             /\ transfer.env[1].FILE_ID /\ transfer.env[1].FILE_NAME
             /\ transfer.env[1].DEST_BUCKET
    /\ transfer.pc = "exited"
          => /\ transfer.exit \in {<<0>>, <<1>>}
             /\ transfer.err \in {"env", "get", "source", "dest"} => transfer.exit = <<1>>
             /\ ~transfer.written => transfer.exit = <<1>>
    /\ (transfer.env # <<>> /\ ~(transfer.env[1].FILE_ID /\ transfer.env[1].FILE_NAME
                                     /\ transfer.env[1].DEST_BUCKET))
          => ~transfer.written /\ transfer.pc \in {"start", "exited"}
    /\ transfer.attempt <= max_retries + 1

\* The source stream failed in the first attempts; the last retry wrote the
\* record completely and exited with success.
C37_Witness ==
    /\ transfer.attempt = max_retries + 1
    /\ transfer.exit = <<0>>
    /\ transfer.written

\* C38: the stored watermark never decreases: every write of the state file
\* stores a value greater than or equal to the value stored before it, over
\* normal, overlapping and backfill scans.
C38_WatermarkMonotone ==
    [][(watermark # <<>> /\ watermark' # <<>>) => watermark'[1] >= watermark[1]]_vars

\* C40: a scan that lists no new items changes nothing: the state file is
\* not written (an absent one stays absent, a stored watermark keeps its
\* value), no job is dispatched and, where no job execution is pending,
\* nothing is ingested.
C40_EmptyScanChangesNothing ==
    [][(/\ \A p \in PSlots : scan[p].pc = "idle" /\ scan'[p].pc = "idle"
        /\ failures' = failures
        /\ uploaded' = uploaded)
          => /\ watermark' = watermark
             /\ dlJobs' <= dlJobs
             /\ dlJobs = 0 => /\ UNCHANGED <<wr, tEvents, dlJobs, vJobs>>
                               /\ hist'.ingested = hist.ingested]_vars

\* The state file holds the creation time of the newest video of the Drive
\* tree and no request is running: the request that starts here reads the
\* state file and lists nothing.
C40_Witness ==
    /\ uploaded = NumFiles
    /\ watermark = <<createdTime(uploaded)>>
    /\ ListFiles(watermark[1]) = <<>>
    /\ failures = 0
    /\ dlJobs = 0
    /\ \A p \in PSlots : scan[p].pc = "idle"
    /\ \E p \in PSlots : ENABLED ScanStart(p)

\* C39: in every reachable state an Analysis Text Record of the item exists
\* only if its Transcript Text Record exists, and the Output Record carries
\* notificationSent only if the Transcript Text Record exists.
C39_ArtifactsConsistent ==
    /\ analysisRec # "absent" => transcriptRec # "absent"
    /\ outRec = "notified" => transcriptRec # "absent"
    /\ analysisFileName(OutputName) \in ArtifactsWritten
          => transcriptFileName(OutputName) \in ArtifactsWritten

\* The save of the transcript text failed in one invocation; a redelivered
\* event saved both records and the marker was written.
C39_Witness ==
    /\ failures > 0
    /\ \E s \in NSlots : nInv[s].err = "none" /\ "analysis" \in nInv[s].did
    /\ analysisRec # "absent"
    /\ transcriptRec = "transcript"
    /\ outRec = "notified"
====
